---- MODULE Spec2Model ----
(***************************************************************************)
(* Model of GenericDao (ndm-generic-dao): a generic data-access object that *)
(* maps retrieve / create / update / delete / replace onto one table of a   *)
(* relational store.  The DAO modelled here operates on the child table phone_numbers  *)
(* (mapped to phoneNumbers) whose parent is users, as in GenericDaoSpec.js; *)
(* replace is also called on a DAO of photos, for its relationship count.   *)
(* Every public operation is a promise chain; each link of a chain is one   *)
(* action.  The validators, the deferred library and the query executor are *)
(* collaborators: they are modelled by their contract.                      *)
(***************************************************************************)
EXTENDS Integers, Sequences, FiniteSets, TLC

\* ---------------------------------------------------------------- bounds
\* Number of operations invoked in one behaviour.
MaxCalls == 2
\* Largest length of the resources array handed to replace.
MaxItems == 2

\* ------------------------------------------------------------- constants
\* The parent identifier of the replace tests.
ParentID == 42
\* Another parent, owning rows that a replace of ParentID must not touch.
OtherParentID == ParentID - 1
\* An identifier carried by a caller's resource that is in no table.
CallerID == 30
\* Stands for a value that is not a valid integer, such as 'asdf'.
NotAnInteger == -1
\* Stands for undefined, the value of a property an object does not have.
Undefined == NotAnInteger - 1

\* ------------------------------------------------------------ value shapes
\* An error: its class, its message and, for a ValidationErrorList, its
\* ordered field-level errors.
Err(kind, msg, errors) == [kind |-> kind, msg |-> msg, errors |-> errors]
\* new DuplicateError(message, field, id)
DuplicateError(msg, field, id) ==
    [kind |-> "DuplicateError", msg |-> msg, field |-> field, id |-> id]
\* A storage call as the DAO hands it to the data context: an insert, update
\* or delete of models (by primary key), a delete filtered by col = val, or a
\* select restricted on col whose parameter mapping is models[1].
StorageCall(kind, col, val, models) ==
    [kind |-> kind, col |-> col, val |-> val, models |-> models]
\* A step of an invocation, in the order the steps happen.
Event(step, what, ok) == [step |-> step, what |-> what, ok |-> ok]
\* The state of a returned promise: refs are the indexes of the caller's own
\* objects it resolved with, values the resources it resolved with otherwise.
Outcome(status, err, refs, values) ==
    [status |-> status, err |-> err, refs |-> refs, values |-> values]
\* An operation and its arguments other than the resources, and the table of
\* the DAO it is called on.
Call(op, cond, pTbl, pID, given, tbl) ==
    [op |-> op, cond |-> cond, pTbl |-> pTbl, pID |-> pID, given |-> given, tbl |-> tbl]
Snapshot(rows, os) == [store |-> rows, objs |-> os]
\* A DAO as its constructor leaves it: this.dc and this.table (by its name).
GenericDao(dataContext, tableName) == [dc |-> dataContext, table |-> tableName]
\* A foreign key of the schema: the table that owns it, its column and the
\* table it references.
ForeignKey(table, column, references) ==
    [table |-> table, column |-> column, references |-> references]
\* A where-condition {$eq: {'<table>.<column>': ':<placeholder>'}}.
Where(column, placeholder) == [column |-> column, placeholder |-> placeholder]
\* A retrieval: its where-condition, its parameter mapping, and the resources
\* the executor returned for it under the table's key.
Query(where, params, fetched) == [where |-> where, params |-> params, fetched |-> fetched]

\* The invocation slots: an invocation lives in a slot from the call to the
\* moment the caller has consumed the settled promise.
Procs == {1, 2}

\* ----------------------------------------------------------------- schema
\* testDBSchema: phone_numbers(phoneNumberID -> ID, userID -> uID, phoneNumber,
\* type); type is the one nullable column.
TableName    == "phone_numbers"
TableMapping == "phoneNumbers"
\* The columns, in schema order, their mappings, and the column each maps.
Columns  == <<"phoneNumberID", "userID", "phoneNumber", "type">>
Mappings == <<"ID", "uID", "phoneNumber", "type">>
ColumnOf(m) ==
    CASE m = "ID"          -> "phoneNumberID"
      [] m = "uID"         -> "userID"
      [] m = "phoneNumber" -> "phoneNumber"
      [] m = "type"        -> "type"
PKMapping  == "ID"
IntMappings == {"ID", "uID"}
\* The foreign keys of testDBSchema, in schema order.
ForeignKeys ==
    << ForeignKey("phone_numbers", "userID", "users"),
       ForeignKey("products", "primaryPhotoID", "photos"),
       ForeignKey("photos", "largeThumbnailID", "photos"),
       ForeignKey("photos", "smallThumbnailID", "photos"),
       ForeignKey("photos", "prodID", "products") >>
\* relStore.getRelationships(tblName, pTblName, true): the foreign keys of
\* the table that reference the parent table.
Relationships(tblName, pTblName) ==
    SelectSeq(ForeignKeys, LAMBDA fk : fk.table = tblName /\ fk.references = pTblName)
\* table.getColumnByName(name).mapTo; a column without mapTo maps to its name.
AllKeys == {"phoneNumber", "ID", "uID"}
\* The properties of a resource the executor returns: one for every column.
Properties == {"phoneNumber", "type", "ID", "uID"}
MapToOfColumn(col) ==
    IF \E m \in AllKeys : ColumnOf(m) = col
    THEN CHOOSE m \in AllKeys : ColumnOf(m) = col
    ELSE col

\* ------------------------------------------------------------------ errors
NoError == Err("none", "", <<>>)
NotFoundError(msg) == Err("NotFoundError", msg, <<>>)
\* The error a failing storage call produces, and the one a condition produces.
StorageError == Err("StorageError", "query failed", <<>>)
ConditionError == Err("Error", "FAKE ERROR!", <<>>)

\* --------------------------------------------------------------- resources
\* A resource is a function from the mappings it carries to their values.
Resource(r, keys) == [k \in keys |-> r[k]]
Has(r, k) == k \in DOMAIN r
\* r[k] = v
SetField(r, k, v) == [x \in DOMAIN r \cup {k} |-> IF x = k THEN v ELSE r[x]]
\* delete r[k]
DeleteField(r, k) == [x \in DOMAIN r \ {k} |-> r[x]]
\* The value read by r[k]
Get(r, k) == IF Has(r, k) THEN r[k] ELSE Undefined

\* ---------------------------------------------------------------- validators
IsInt(v) == v # NotAnInteger
\* The mappings a validator of the given mode requires and looks at.
RequiredIn(mode) ==
    CASE mode = "insert" -> {"phoneNumber", "uID"}
      [] mode = "update" -> {"ID"}
      [] mode = "delete" -> {"ID"}
      [] mode = "model"  -> {}
CheckedIn(mode) ==
    IF mode = "delete" THEN <<"ID">> ELSE Mappings
FieldProblem(r, k, mode) ==
    IF ~Has(r, k)
    THEN IF k \in RequiredIn(mode) THEN "required" ELSE "ok"
    ELSE IF k \in IntMappings /\ ~IsInt(r[k]) THEN "notInteger" ELSE "ok"
\* The ordered list of field-level errors of a model; empty when it is valid.
FieldErrors(r, mode) ==
    LET ks  == CheckedIn(mode)
        all == [i \in 1..Len(ks) |-> [field |-> ks[i], problem |-> FieldProblem(r, ks[i], mode)]]
    IN  SelectSeq(all, LAMBDA e : e.problem # "ok")
Valid(r, mode) == FieldErrors(r, mode) = <<>>
ValidationErrorList(r, mode) == Err("ValidationErrorList", "Validation errors occurred.", FieldErrors(r, mode))

\* ------------------------------------------------------------------- store
\* A row of phone_numbers, keyed by column name.
Row(id, fk, phone, type) ==
    [phoneNumberID |-> id, userID |-> fk, phoneNumber |-> phone, type |-> type]
\* NULL, the value of a nullable column that an insert gave no value.
Null == "NULL"
ToRow(r, id) == Row(id, r["uID"], r["phoneNumber"], IF Has(r, "type") THEN r["type"] ELSE Null)
ToResource(row) ==
    [k \in Properties |-> row[ColumnOf(k)]]
RowIDs(rows) == {row.phoneNumberID : row \in rows}
ChildrenOf(rows, pid) == {row \in rows : row.userID = pid}
Max(a, b) == IF a >= b THEN a ELSE b

\* One INSERT: the row takes the identifier the model carries, or else the
\* next auto-increment value; a duplicate key, a missing NOT NULL column or a
\* value of the wrong type makes the query fail.
InsertId(r, next) == IF Has(r, "ID") THEN r["ID"] ELSE next
InsertFails(rows, r, next) ==
    \/ ~({"phoneNumber", "uID"} \subseteq DOMAIN r)
    \/ ~IsInt(InsertId(r, next)) \/ ~IsInt(r["uID"])
    \/ InsertId(r, next) \in RowIDs(rows)

\* The inserts of the first n models of rs, one query each, stopping at the
\* first failing query: [rows, next, ids, failed].
RECURSIVE InsertSeq(_, _, _, _)
InsertSeq(rows, next, rs, n) ==
    IF n = 0 \/ rs = <<>>
    THEN [rows |-> rows, next |-> next, ids |-> <<>>, failed |-> FALSE]
    ELSE LET r  == Head(rs)
             id == InsertId(r, next)
         IN  IF InsertFails(rows, r, next)
             THEN [rows |-> rows, next |-> next, ids |-> <<>>, failed |-> TRUE]
             ELSE LET rest == InsertSeq(rows \cup {ToRow(r, id)}, Max(next, id + 1), Tail(rs), n - 1)
                  IN  [rest EXCEPT !.ids = <<id>> \o @]

\* UPDATE by primary key: the columns the model carries are overwritten.
UpdatedRow(row, r) ==
    [c \in DOMAIN row |->
        IF c = "phoneNumberID" THEN row[c]
        ELSE IF Has(r, MapToOfColumn(c)) THEN r[MapToOfColumn(c)] ELSE row[c]]
\* The rows whose primary key is the one the model carries.
MatchedByKey(rows, r) == {row \in rows : Has(r, "ID") /\ row.phoneNumberID = r["ID"]}
UpdateRows(rows, r) ==
    {IF row \in MatchedByKey(rows, r) THEN UpdatedRow(row, r) ELSE row : row \in rows}
\* DELETE ... WHERE column = value
DeleteWhere(rows, col, val) == {row \in rows : row[col] # val}
\* The affectedRows an UPDATE or DELETE by the model's primary key reports.
AffectedRows(rows, r) == Cardinality(MatchedByKey(rows, r))


\* ------------------------------------------------------------------- state
VARIABLES
    store,      \* the rows of phone_numbers
    nextID,     \* the table's auto-increment counter
    ncalls,     \* operations invoked so far
    pc,         \* per slot: the link of the promise chain that is pending
    call,       \* per slot: the operation and its arguments
    objs,       \* per slot: the caller's resource objects (mutated in place)
    trace,      \* per slot: the steps taken so far
    issued,     \* per slot: the storage calls issued so far
    outcome,    \* per slot: the state of the returned promise
    before,     \* per slot: the store and the objects when the call was made
    query,      \* per slot: the where-condition, the parameter mapping and the
                \* resources the executor returned for them
    dao         \* per constructed DAO: its data context and its table

vars == <<store, nextID, ncalls, pc, call, objs, trace, issued, outcome, before, query, dao>>


\* ------------------------------------------------------- promise outcomes
NoOutcome == Outcome("none", NoError, <<>>, <<>>)
Pending   == Outcome("pending", NoError, <<>>, <<>>)
\* Rejected with err.
Rejected(err) == Outcome("rejected", err, <<>>, <<>>)
\* Resolved with the caller's own objects objs[p][i], i in refs.
ResolvedWith(refs) == Outcome("resolved", NoError, refs, <<>>)

NoCall == Call("none", "none", "", 0, FALSE, "")
\* No where-condition: the select is unrestricted.
NoWhere == Where("", "")
NoParams == [k \in {} |-> 0]
NoQuery == Query(NoWhere, NoParams, <<>>)

\* What the callers pass in.
Template(id, fk, phone) == [k \in AllKeys |-> CASE k = "ID" -> id [] k = "uID" -> fk [] OTHER -> phone]
\* The single resources handed to createIf, create, updateIf, update and delete.
ResourcePool ==
    { Resource(Template(0, ParentID, "111-222-3333"), {"phoneNumber", "uID"}),
      Resource(Template(1, ParentID, "444-555-6666"), AllKeys),
      Resource(Template(CallerID, OtherParentID, "444-555-6666"), AllKeys),
      Resource(Template(1, 0, ""), {"ID"}),
      Resource(Template(NotAnInteger, 0, "111-222-3333"), {"phoneNumber", "ID"}),
      Resource(Template(0, 0, ""), {}),
      SetField(Resource(Template(0, ParentID, "777-888-9999"), {"phoneNumber", "uID"}), "type", "mobile") }
\* The behaviours of a caller-supplied condition: its promise resolves, its
\* promise is rejected, or the call itself throws.
Conditions == {"resolve", "reject", "throw"}

\* The rows the table may hold when the DAO is constructed.
SeedRows == { Row(1, ParentID, "111-222-3333", Null), Row(2, OtherParentID, "444-555-6666", "mobile") }

\* The data context the DAOs are constructed with, and the tables they are
\* constructed on.
DataContext == "dataContext"
DaoTables == {TableName, "photos"}

Init ==
    /\ dao = [t \in DaoTables |-> GenericDao(DataContext, t)]
    /\ store \in SUBSET SeedRows
    /\ nextID = 3
    /\ ncalls = 0
    /\ pc = [p \in Procs |-> "idle"]
    /\ call = [p \in Procs |-> NoCall]
    /\ objs = [p \in Procs |-> <<>>]
    /\ trace = [p \in Procs |-> <<>>]
    /\ issued = [p \in Procs |-> <<>>]
    /\ outcome = [p \in Procs |-> NoOutcome]
    /\ before = [p \in Procs |-> Snapshot({}, <<>>)]
    /\ query = [p \in Procs |-> NoQuery]

\* ----------------------------------------------------------- chain plumbing
Invoke_RebindsTable(p, c, os, q) ==
    /\ pc[p] = "idle"
    /\ ncalls < MaxCalls
    /\ ncalls' = ncalls + 1
    /\ pc' = [pc EXCEPT ![p] = "validating"]
    /\ call' = [call EXCEPT ![p] = c]
    /\ objs' = [objs EXCEPT ![p] = os]
    /\ outcome' = [outcome EXCEPT ![p] = Pending]
    /\ before' = [before EXCEPT ![p] = Snapshot(store, os)]
    /\ query' = [query EXCEPT ![p] = q]
    /\ dao' = [dao EXCEPT ![c.tbl] = GenericDao(@.dc, c.pTbl)]
    /\ UNCHANGED <<store, nextID, trace, issued>>

\* An operation is called: the chain's first link (a validator) is pending.
\* No method assigns this.dc or this.table.
Invoke(p, c, os, q) ==
    /\ pc[p] = "idle"
    /\ ncalls < MaxCalls
    /\ ncalls' = ncalls + 1
    /\ pc' = [pc EXCEPT ![p] = "validating"]
    /\ call' = [call EXCEPT ![p] = c]
    /\ objs' = [objs EXCEPT ![p] = os]
    /\ outcome' = [outcome EXCEPT ![p] = Pending]
    /\ before' = [before EXCEPT ![p] = Snapshot(store, os)]
    /\ query' = [query EXCEPT ![p] = q]
    /\ UNCHANGED <<store, nextID, trace, issued, dao>>
\* An operation that takes resources is called.
Begin(p, c, os) == Invoke(p, c, os, NoQuery)
\* The returned promise settles.
Settle(p, o) ==
    /\ pc' = [pc EXCEPT ![p] = "settled"]
    /\ outcome' = [outcome EXCEPT ![p] = o]
Log(p, events) == trace' = [trace EXCEPT ![p] = @ \o events]
Issue(p, c) == issued' = [issued EXCEPT ![p] = Append(@, c)]

Propagated_Wrapped(err) == Err("Error", err.msg, <<>>)

\* The chains attach fulfilment callbacks only (.then(f)): the rejection of a
\* link that no later link handles is the rejection of the returned promise.
Propagated(err) == err

\* ------------------------------------------------------- createIf, create
CreateIf(p, resource, condition) ==
    Begin(p, Call("createIf", condition, "", 0, TRUE, TableName), <<resource>>)

Create_ConditionRejects(p, resource) ==
    Begin(p, Call("create", "reject", "", 0, TRUE, TableName), <<resource>>)

\* Same as createIf with a no-op condition.
Create(p, resource) ==
    Begin(p, Call("create", "resolve", "", 0, TRUE, TableName), <<resource>>)

\* new InsertValidator(resource, ...).validate() settles; on success the next
\* link calls condition(resource).
\* early: the storage calls issued together with the call of the condition.
CreateIfValidatedWith(p, isValid, early) ==
    /\ pc[p] = "validating"
    /\ call[p].op \in {"createIf", "create"}
    /\ IF ~isValid
       THEN /\ Settle(p, Rejected(ValidationErrorList(objs[p][1], "insert")))
            /\ Log(p, <<Event("validated", "insert", FALSE)>>)
            /\ UNCHANGED issued
       ELSE IF call[p].cond = "throw"
       THEN /\ Settle(p, Rejected(ConditionError))
            /\ Log(p, <<Event("validated", "insert", TRUE), Event("conditionCalled", "1", TRUE),
                        Event("conditionSettled", "1", FALSE)>>)
            /\ UNCHANGED issued
       ELSE /\ pc' = [pc EXCEPT ![p] = "condition"]
            /\ Log(p, <<Event("validated", "insert", TRUE), Event("conditionCalled", "1", TRUE)>> \o
                      [i \in 1..Len(early) |-> Event("issued", early[i].kind, TRUE)])
            /\ issued' = [issued EXCEPT ![p] = @ \o early]
            /\ UNCHANGED outcome
    /\ UNCHANGED <<store, nextID, ncalls, call, objs, before, query, dao>>

CreateIfValidated_NotChecked(p) == CreateIfValidatedWith(p, TRUE, <<>>)

CreateIfValidated_ConditionNotAwaited(p) ==
    CreateIfValidatedWith(p, Valid(objs[p][1], "insert"), <<StorageCall("insert", "", 0, <<objs[p][1]>>)>>)

CreateIfValidated(p) == CreateIfValidatedWith(p, Valid(objs[p][1], "insert"), <<>>)

\* The condition's promise settles; on success the next link executes the insert.
CreateIfConditionSettledWith(p, ok, err) ==
    /\ pc[p] = "condition"
    /\ call[p].op \in {"createIf", "create"}
    /\ IF ~ok
       THEN /\ Settle(p, Rejected(err))
            /\ Log(p, <<Event("conditionSettled", "1", FALSE)>>)
            /\ UNCHANGED issued
       ELSE /\ pc' = [pc EXCEPT ![p] = "inserting"]
            /\ Log(p, <<Event("conditionSettled", "1", TRUE), Event("issued", "insert", TRUE)>>)
            /\ Issue(p, StorageCall("insert", "", 0, <<objs[p][1]>>))
            /\ UNCHANGED outcome
    /\ UNCHANGED <<store, nextID, ncalls, call, objs, before, query, dao>>

CreateIfConditionSettled_Wrapped(p) ==
    CreateIfConditionSettledWith(p, call[p].cond = "resolve", Err("Error", "Condition failed.", <<>>))

CreateIfConditionSettled(p) ==
    CreateIfConditionSettledWith(p, call[p].cond = "resolve", ConditionError)

\* The insert settles: the data context sets the generated identifier on the
\* model, and the last link resolves with the resource.
CreateIfInsertedWith(p, result) ==
    /\ pc[p] = "inserting"
    /\ call[p].op \in {"createIf", "create"}
    /\ \E fails \in BOOLEAN :
         LET res == InsertSeq(store, nextID, <<objs[p][1]>>, 1)
         IN  IF fails \/ res.failed
             THEN /\ Settle(p, Rejected(Propagated(StorageError)))
                  /\ Log(p, <<Event("completed", "insert", FALSE)>>)
                  /\ UNCHANGED <<store, nextID, objs>>
             ELSE /\ store' = res.rows
                  /\ nextID' = res.next
                  /\ objs' = [objs EXCEPT ![p][1] = SetField(@, PKMapping, res.ids[1])]
                  /\ Settle(p, result)
                  /\ Log(p, <<Event("completed", "insert", TRUE)>>)
    /\ UNCHANGED <<ncalls, call, issued, before, query, dao>>

CreateIfInserted_ResolvesWithQueryResult(p) == CreateIfInsertedWith(p, ResolvedWith(<<>>))

CreateIfInserted(p) == CreateIfInsertedWith(p, ResolvedWith(<<1>>))

\* ------------------------------------------------------- updateIf, update
UpdateIf(p, resource, condition) ==
    Begin(p, Call("updateIf", condition, "", 0, TRUE, TableName), <<resource>>)

Update_ConditionRejects(p, resource) ==
    Begin(p, Call("update", "reject", "", 0, TRUE, TableName), <<resource>>)

\* Same as updateIf with a no-op condition.
Update(p, resource) ==
    Begin(p, Call("update", "resolve", "", 0, TRUE, TableName), <<resource>>)

\* new UpdateValidator(resource, ...).validate() settles; on success the next
\* link calls condition(resource).
UpdateIfValidatedWith(p, isValid) ==
    /\ pc[p] = "validating"
    /\ call[p].op \in {"updateIf", "update"}
    /\ IF ~isValid
       THEN /\ Settle(p, Rejected(ValidationErrorList(objs[p][1], "update")))
            /\ Log(p, <<Event("validated", "update", FALSE)>>)
       ELSE IF call[p].cond = "throw"
       THEN /\ Settle(p, Rejected(ConditionError))
            /\ Log(p, <<Event("validated", "update", TRUE), Event("conditionCalled", "1", TRUE),
                        Event("conditionSettled", "1", FALSE)>>)
       ELSE /\ pc' = [pc EXCEPT ![p] = "condition"]
            /\ Log(p, <<Event("validated", "update", TRUE), Event("conditionCalled", "1", TRUE)>>)
            /\ UNCHANGED outcome
    /\ UNCHANGED <<store, nextID, ncalls, call, objs, issued, before, query, dao>>

UpdateIfValidated_NotChecked(p) == UpdateIfValidatedWith(p, TRUE)

UpdateIfValidated(p) == UpdateIfValidatedWith(p, Valid(objs[p][1], "update"))

\* The condition's promise settles; on success the next link executes the update.
UpdateIfConditionSettledWith(p, ok, err) ==
    /\ pc[p] = "condition"
    /\ call[p].op \in {"updateIf", "update"}
    /\ IF ~ok
       THEN /\ Settle(p, Rejected(err))
            /\ Log(p, <<Event("conditionSettled", "1", FALSE)>>)
            /\ UNCHANGED issued
       ELSE /\ pc' = [pc EXCEPT ![p] = "updating"]
            /\ Log(p, <<Event("conditionSettled", "1", TRUE), Event("issued", "update", TRUE)>>)
            /\ Issue(p, StorageCall("update", ColumnOf(PKMapping), 0, <<objs[p][1]>>))
            /\ UNCHANGED outcome
    /\ UNCHANGED <<store, nextID, ncalls, call, objs, before, query, dao>>

UpdateIfConditionSettled_Ignored(p) == UpdateIfConditionSettledWith(p, TRUE, ConditionError)

UpdateIfConditionSettled(p) ==
    UpdateIfConditionSettledWith(p, call[p].cond = "resolve", ConditionError)

\* The test both completions apply to the store's answer:
\* updRes.affectedRows === 1, delRes.affectedRows === 1.  A count that is
\* missing from the answer is Undefined.
Found_AtLeastOne(affectedRows) == affectedRows >= 1

Found(affectedRows) == affectedRows = 1

\* The counts a store can put in its answer: none, one, several, or no
\* count at all.
ReportedCounts == {0, 1, 2, Undefined}

CountName(c) ==
    CASE c = 0 -> "0"
      [] c = 1 -> "1"
      [] c = 2 -> "2"
      [] OTHER -> "undefined"

\* The history entry of an answer whose count is an input of the step.
Reported(c) == <<Event("affectedRows", CountName(c), TRUE)>>

\* The update settles: affectedRows === 1 ? resource : reject(NotFoundError).
\* answered is what the history keeps of the answer besides its completion.
UpdateIfUpdatedWith(p, affectedRows, answered) ==
    /\ pc[p] = "updating"
    /\ call[p].op \in {"updateIf", "update"}
    /\ \E fails \in BOOLEAN :
         IF fails
         THEN /\ Settle(p, Rejected(Propagated(StorageError)))
              /\ Log(p, <<Event("completed", "update", FALSE)>>)
              /\ UNCHANGED store
         ELSE /\ store' = UpdateRows(store, objs[p][1])
              /\ Log(p, <<Event("completed", "update", TRUE)>> \o answered)
              /\ IF Found(affectedRows)
                 THEN Settle(p, ResolvedWith(<<1>>))
                 ELSE Settle(p, Rejected(NotFoundError("Resource not found.")))
    /\ UNCHANGED <<nextID, ncalls, call, objs, issued, before, query, dao>>

UpdateIfUpdated_AffectedRowsIgnored(p) == UpdateIfUpdatedWith(p, 1, <<>>)

UpdateIfUpdated(p) ==
    UpdateIfUpdatedWith(p, AffectedRows(store, objs[p][1]), <<>>)

\* The same link when the store's count is whatever the store reports.
UpdateIfUpdatedReporting(p) ==
    \E c \in ReportedCounts : UpdateIfUpdatedWith(p, c, Reported(c))

\* ------------------------------------------------------------------ delete
Delete(p, resource) ==
    Begin(p, Call("delete", "none", "", 0, TRUE, TableName), <<resource>>)

\* new DeleteValidator(resource, ...).validate() settles; on success the next
\* link executes the delete by primary key.
DeleteValidatedWith(p, isValid) ==
    /\ pc[p] = "validating"
    /\ call[p].op = "delete"
    /\ IF ~isValid
       THEN /\ Settle(p, Rejected(ValidationErrorList(objs[p][1], "delete")))
            /\ Log(p, <<Event("validated", "delete", FALSE)>>)
            /\ UNCHANGED issued
       ELSE /\ pc' = [pc EXCEPT ![p] = "deleting"]
            /\ Log(p, <<Event("validated", "delete", TRUE), Event("issued", "delete", TRUE)>>)
            /\ Issue(p, StorageCall("delete", ColumnOf(PKMapping), 0, <<objs[p][1]>>))
            /\ UNCHANGED outcome
    /\ UNCHANGED <<store, nextID, ncalls, call, objs, before, query, dao>>

DeleteValidated_NotChecked(p) == DeleteValidatedWith(p, TRUE)

DeleteValidated(p) == DeleteValidatedWith(p, Valid(objs[p][1], "delete"))

\* The delete settles: affectedRows === 1 ? resource : reject(NotFoundError).
DeleteDeletedWith(p, affectedRows, answered) ==
    /\ pc[p] = "deleting"
    /\ call[p].op = "delete"
    /\ \E fails \in BOOLEAN :
         IF fails
         THEN /\ Settle(p, Rejected(Propagated(StorageError)))
              /\ Log(p, <<Event("completed", "delete", FALSE)>>)
              /\ UNCHANGED store
         ELSE /\ store' = store \ MatchedByKey(store, objs[p][1])
              /\ Log(p, <<Event("completed", "delete", TRUE)>> \o answered)
              /\ IF Found(affectedRows)
                 THEN Settle(p, ResolvedWith(<<1>>))
                 ELSE Settle(p, Rejected(NotFoundError("Resource not found.")))
    /\ UNCHANGED <<nextID, ncalls, call, objs, issued, before, query, dao>>

DeleteDeleted_AffectedRowsIgnored(p) == DeleteDeletedWith(p, 1, <<>>)

DeleteDeleted(p) ==
    DeleteDeletedWith(p, AffectedRows(store, objs[p][1]), <<>>)

\* The same link when the store's count is whatever the store reports.
DeleteDeletedReporting(p) ==
    \E c \in ReportedCounts : DeleteDeletedWith(p, c, Reported(c))

\* ----------------------------------------------------------------- replace
\* The items handed to replace.
ItemPool ==
    { Resource(Template(0, 0, "111-222-3333"), {"phoneNumber"}),
      Resource(Template(CallerID, OtherParentID, "444-555-6666"), AllKeys),
      Resource(Template(CallerID, 0, ""), {"ID"}) }
SeqsUpTo(S, n) == UNION {[1..k -> S] : k \in 0..n}
\* The table of the DAO and the parent table of each replace: phone_numbers
\* has one foreign key to users and none to products, photos has two to
\* photos.
ReplaceTargets == {<<TableName, "users">>, <<TableName, "products">>, <<"photos", "photos">>}
ParentIDs == {NotAnInteger, ParentID}

\* const parent = {[pPKMapping]: pID}
ParentOf(pID) == Resource(Template(pID, 0, ""), {PKMapping})
\* fkName = fks[0].column; fkMapping = this.table.getColumnByName(fkName).mapTo
FKName(tblName, pTblName) == Relationships(tblName, pTblName)[1].column
FKMapping(tblName, pTblName) == MapToOfColumn(FKName(tblName, pTblName))

\* The AssertionError ndm_assert raises.
AssertionError ==
    Err("AssertionError",
        "Replace can only be performed if there is exactly one relationship between the parent and child tables.",
        <<>>)

\* replace(parentTableName, parentID, resources) on the DAO of tblName.  The
\* relationship lookup and ndm_assert(fks.length === 1) run before the chain
\* is built: a failing assertion is thrown out of the call, nothing else has
\* happened.  given = FALSE: resources is omitted.
ReplaceWith(p, tblName, pTblName, pID, resources, given, asserted, channel) ==
    IF asserted
    THEN Begin(p, Call("replace", "none", pTblName, pID, given, tblName), resources)
    ELSE /\ pc[p] = "idle"
         /\ ncalls < MaxCalls
         /\ ncalls' = ncalls + 1
         /\ call' = [call EXCEPT ![p] = Call("replace", "none", pTblName, pID, given, tblName)]
         /\ objs' = [objs EXCEPT ![p] = resources]
         /\ before' = [before EXCEPT ![p] = Snapshot(store, resources)]
         /\ Settle(p, Outcome(channel, AssertionError, <<>>, <<>>))
         /\ UNCHANGED <<store, nextID, trace, issued, query, dao>>

Replace_AtLeastOne(p, tblName, pTblName, pID, resources, given) ==
    ReplaceWith(p, tblName, pTblName, pID, resources, given,
                Len(Relationships(tblName, pTblName)) >= 1, "thrown")

Replace_AssertionRejected(p, tblName, pTblName, pID, resources, given) ==
    ReplaceWith(p, tblName, pTblName, pID, resources, given,
                Len(Relationships(tblName, pTblName)) = 1, "rejected")

Replace_ParentIDFirst(p, tblName, pTblName, pID, resources, given) ==
    ReplaceWith(p, tblName, pTblName, pID, resources, given,
                Len(Relationships(tblName, pTblName)) = 1 \/ ~Valid(ParentOf(pID), "delete"), "thrown")

Replace(p, tblName, pTblName, pID, resources, given) ==
    ReplaceWith(p, tblName, pTblName, pID, resources, given,
                Len(Relationships(tblName, pTblName)) = 1, "thrown")

Rewritten_KeepsIdentifier(r, tblName, pTblName, pID) == SetField(r, FKMapping(tblName, pTblName), pID)

Rewritten_Untouched(r, tblName, pTblName, pID) == r

\* r[fkMapping] = pID; delete r[pkMapping];
Rewritten(r, tblName, pTblName, pID) ==
    SetField(DeleteField(r, PKMapping), FKMapping(tblName, pTblName), pID)

\* new DeleteValidator(parent, ...).validate() settles; on success the next
\* link rewrites every resource and starts the validation of each of them.
ReplaceParentValidatedWith(p, isValid) ==
    /\ pc[p] = "validating"
    /\ call[p].op = "replace"
    /\ IF ~isValid
       THEN /\ Settle(p, Rejected(ValidationErrorList(ParentOf(call[p].pID), "delete")))
            /\ Log(p, <<Event("validated", "parent", FALSE)>>)
            /\ UNCHANGED objs
       ELSE IF ~call[p].given
       THEN /\ Settle(p, Rejected(Err("TypeError", "Cannot read property 'forEach' of undefined", <<>>)))
            /\ Log(p, <<Event("validated", "parent", TRUE)>>)
            /\ UNCHANGED objs
       ELSE /\ pc' = [pc EXCEPT ![p] = "validatingItems"]
            /\ objs' = [objs EXCEPT ![p] =
                          [i \in 1..Len(@) |-> Rewritten(@[i], call[p].tbl, call[p].pTbl, call[p].pID)]]
            /\ Log(p, <<Event("validated", "parent", TRUE)>>)
            /\ UNCHANGED outcome
    /\ UNCHANGED <<store, nextID, ncalls, call, issued, before, query, dao>>

ReplaceParentValidated_NotChecked(p) == ReplaceParentValidatedWith(p, TRUE)

ReplaceParentValidated(p) ==
    ReplaceParentValidatedWith(p, Valid(ParentOf(call[p].pID), "delete"))

\* The indexes of the resources whose InsertValidator rejects.
InvalidItems(items) == {i \in 1..Len(items) : ~Valid(items[i], "insert")}

InvalidItems_FirstOnly(items) == {i \in {1} \cap (1..Len(items)) : ~Valid(items[i], "insert")}

\* The field-level errors of the resources at the given indexes, in index order.
RECURSIVE ErrorsOfAll(_, _, _)
ErrorsOfAll(items, invalid, i) ==
    IF i > Len(items) THEN <<>>
    ELSE (IF i \in invalid THEN FieldErrors(items[i], "insert") ELSE <<>>)
            \o ErrorsOfAll(items, invalid, i + 1)

ItemsRejection_Aggregated(items, invalid) ==
    {Err("ValidationErrorList", "Validation errors occurred.", ErrorsOfAll(items, invalid, 1))}

\* The errors deferred.map may be rejected with: the promise it returns is
\* rejected with the error of the first validator that rejects, whichever of
\* the rejecting validators that is.
ItemsRejection(items, invalid) == {ValidationErrorList(items[i], "insert") : i \in invalid}

\* The storage calls the link after deferred.map issues at once.
DeleteCall(p) == StorageCall("delete", FKName(call[p].tbl, call[p].pTbl), call[p].pID, <<>>)
InsertCall(p) == StorageCall("insert", "", 0, objs[p])
CallsAfterItems(p) == <<DeleteCall(p)>>

\* deferred.map(resources, validate) settles: it is rejected with the error
\* list of a rejecting validator; when none rejects the next link executes
\* the delete of the parent's rows.
ReplaceItemsValidatedWith(p, invalid, calls) ==
    /\ pc[p] = "validatingItems"
    /\ IF invalid # {}
       THEN /\ \E e \in ItemsRejection(objs[p], invalid) : Settle(p, Rejected(e))
            /\ Log(p, <<Event("validated", "items", FALSE)>>)
            /\ UNCHANGED issued
       ELSE /\ pc' = [pc EXCEPT ![p] = "replaceDeleting"]
            /\ Log(p, <<Event("validated", "items", TRUE)>> \o
                      [i \in 1..Len(calls) |-> Event("issued", calls[i].kind, TRUE)])
            /\ issued' = [issued EXCEPT ![p] = @ \o calls]
            /\ UNCHANGED outcome
    /\ UNCHANGED <<store, nextID, ncalls, call, objs, before, query, dao>>

ReplaceItemsValidated_FirstOnly(p) ==
    ReplaceItemsValidatedWith(p, InvalidItems_FirstOnly(objs[p]), CallsAfterItems(p))

ReplaceItemsValidated_BothCalls(p) ==
    ReplaceItemsValidatedWith(p, InvalidItems(objs[p]), <<DeleteCall(p), InsertCall(p)>>)

ReplaceItemsValidated(p) ==
    ReplaceItemsValidatedWith(p, InvalidItems(objs[p]), CallsAfterItems(p))

\* The delete settles; on success the next link executes the insert of the
\* resources.
ReplaceDeletedWith(p, remaining) ==
    /\ pc[p] = "replaceDeleting"
    /\ \E fails \in BOOLEAN :
         IF fails
         THEN /\ Settle(p, Rejected(Propagated(StorageError)))
              /\ Log(p, <<Event("completed", "delete", FALSE)>>)
              /\ UNCHANGED <<store, issued>>
         ELSE /\ store' = remaining
              /\ pc' = [pc EXCEPT ![p] = "replaceInserting"]
              /\ Log(p, <<Event("completed", "delete", TRUE), Event("issued", "insert", TRUE)>>)
              /\ Issue(p, InsertCall(p))
              /\ UNCHANGED outcome
    /\ UNCHANGED <<nextID, ncalls, call, objs, before, query, dao>>

ReplaceDeleted_NothingDeleted(p) == ReplaceDeletedWith(p, store)

ReplaceDeleted(p) ==
    ReplaceDeletedWith(p, DeleteWhere(store, FKName(call[p].tbl, call[p].pTbl), call[p].pID))

\* The resources of a pending insert whose query has not completed: the
\* rewriting removed every identifier, a completed query puts the generated
\* one on its resource.
NotInserted(os) == SelectSeq(os, LAMBDA r : ~Has(r, PKMapping))

\* The insert settles, one query per resource: when the query after the first
\* n fails the chain is rejected with its error and no link issues anything
\* more (retried is empty); otherwise the last link resolves with
\* resources[tblMapping], the resources themselves.
ReplaceInsertedWith(p, result, retried) ==
    /\ pc[p] = "replaceInserting"
    /\ \E n \in 0..Len(NotInserted(objs[p])) :
         LET k == Len(objs[p]) - Len(NotInserted(objs[p]))
             res == InsertSeq(store, nextID, NotInserted(objs[p]), n)
             withIDs == [i \in 1..Len(objs[p]) |->
                            IF i > k /\ i <= k + Len(res.ids)
                            THEN SetField(objs[p][i], PKMapping, res.ids[i - k])
                            ELSE objs[p][i]]
         IN  /\ store' = res.rows
             /\ nextID' = res.next
             /\ objs' = [objs EXCEPT ![p] = withIDs]
             /\ IF res.failed \/ n < Len(NotInserted(objs[p]))
                THEN /\ Settle(p, Rejected(Propagated(StorageError)))
                     /\ Log(p, <<Event("completed", "insert", FALSE)>>)
                     /\ issued' = [issued EXCEPT ![p] = @ \o retried]
                ELSE /\ Settle(p, result)
                     /\ Log(p, <<Event("completed", "insert", TRUE)>>)
                     /\ UNCHANGED issued
    /\ UNCHANGED <<ncalls, call, before, query, dao>>

ReplaceInserted_ResolvesWithQueryResult(p) == ReplaceInsertedWith(p, ResolvedWith(<<>>), <<>>)

ReplaceInserted_Retried(p) ==
    ReplaceInsertedWith(p, ResolvedWith([i \in 1..Len(objs[p]) |-> i]), <<InsertCall(p)>>)

ReplaceInserted(p) == ReplaceInsertedWith(p, ResolvedWith([i \in 1..Len(objs[p]) |-> i]), <<>>)

\* One query of a pending insert completes while later queries of the same
\* insert are outstanding: its row is in the table and its resource has the
\* generated identifier.  Between two calls on one DAO nothing holds the
\* other call's storage calls back until the rest have completed.
ReplaceInsertingOne(p) ==
    /\ pc[p] = "replaceInserting"
    /\ Len(NotInserted(objs[p])) >= 2
    /\ LET k == Len(objs[p]) - Len(NotInserted(objs[p]))
           res == InsertSeq(store, nextID, NotInserted(objs[p]), 1)
       IN  /\ ~res.failed
           /\ store' = res.rows
           /\ nextID' = res.next
           /\ objs' = [objs EXCEPT ![p][k + 1] = SetField(@, PKMapping, res.ids[1])]
    /\ UNCHANGED <<ncalls, pc, call, trace, issued, outcome, before, query, dao>>

\* ------------------------------- retrieve, retrieveSingle, retrieveByID, isUnique
\* this.table.getPrimaryKey()[0].getName()
PKName == ColumnOf(PKMapping)
\* The parameter mapping {k: v}.
Param(k, v) == [x \in {k} |-> v]
\* The where-conditions and parameter mappings the callers pass.
QueryPool ==
    { Query(NoWhere, NoParams, <<>>),
      Query(Where("userID", "userID"), Param("userID", ParentID), <<>>),
      Query(Where("userID", "uID"), Param("uID", ParentID), <<>>),
      Query(Where("userID", "uID"), Param("uID", NotAnInteger), <<>>),
      Query(Where("phoneNumberID", "phoneNumberID"), Param("phoneNumberID", 1), <<>>) }
\* The identifiers handed to retrieveByID.
IDPool == {NotAnInteger, 1, CallerID}
\* The callbacks onNotFound and onDupe: none, one that produces an error of
\* the caller's, one that relabels the error it is given, and the one of
\* retrieveByID.
NotFoundHandlers == {"none", "custom", "relabel", "invalidKey"}
DupeHandlers == {"none", "custom"}
ReadOps == {"retrieve", "retrieveSingle", "retrieveByID", "isUnique"}

\* if (onNotFound) return deferred.reject(onNotFound(err));
\* return deferred.reject(err);
OnNotFound(handler, err) ==
    CASE handler = "none"       -> err
      [] handler = "custom"     -> NotFoundError("CUSTOM ERROR")
      [] handler = "relabel"    -> Err("CustomError", err.msg, <<>>)
      [] handler = "invalidKey" -> NotFoundError("Invalid " \o PKName \o ".")
\* if (onDupe) return deferred.reject(onDupe(err)); return deferred.reject(err);
OnDupe(handler, err) ==
    CASE handler = "none"   -> err
      [] handler = "custom" -> DuplicateError("This name is taken.", "name", err.id)

\* The rows a select restricted by the where-condition returns, and the orders
\* in which the executor may return them (as resources, under the table's key).
Matching(rows, where, params) ==
    IF where = NoWhere THEN rows
    ELSE {row \in rows : row[where.column] = Get(params, where.placeholder)}
Orderings(rows) ==
    {[i \in 1..Cardinality(rows) |-> ToResource(f[i])] :
        f \in {g \in [1..Cardinality(rows) -> rows] : \A i, j \in 1..Cardinality(rows) : g[i] = g[j] => i = j}}
Reverse(seq) == [i \in 1..Len(seq) |-> seq[Len(seq) + 1 - i]]

\* A retrieval is called.  params = params || {}; given = FALSE: params omitted.
Retrieval(p, op, handler, where, params, given) ==
    Invoke(p, Call(op, handler, "", 0, given, TableName), IF given THEN <<params>> ELSE <<>>,
           Query(where, IF given THEN params ELSE NoParams, <<>>))

Retrieve(p, where, params, given) == Retrieval(p, "retrieve", "none", where, params, given)

RetrieveSingle(p, where, params, given, onNotFound) ==
    Retrieval(p, "retrieveSingle", onNotFound, where, params, given)

\* where = {$eq: {[fqcn]: `:${pkName}`}}; params = {[pkName]: id};
\* onNotFound = () => new NotFoundError(`Invalid ${pkName}.`)
RetrieveByIDWith(p, id, key, onNotFound) ==
    Invoke(p, Call("retrieveByID", onNotFound, "", id, TRUE, TableName), <<>>,
           Query(Where(PKName, key), Param(key, id), <<>>))

RetrieveByID_DefaultNotFound(p, id) == RetrieveByIDWith(p, id, PKName, "none")

RetrieveByID_WrongColumn(p, id) ==
    Invoke(p, Call("retrieveByID", "invalidKey", "", id, TRUE, TableName), <<>>,
           Query(Where("userID", PKName), Param(PKName, id), <<>>))

RetrieveByID(p, id) == RetrieveByIDWith(p, id, PKName, "invalidKey")

IsUnique(p, where, params, given, onDupe) ==
    Retrieval(p, "isUnique", onDupe, where, params, given)

\* new ModelValidator(params, ...).validate() settles; on success the next
\* link executes the select with the where-condition and the parameters.
RetrieveValidatedWith(p, isValid) ==
    /\ pc[p] = "validating"
    /\ call[p].op \in ReadOps
    /\ IF ~isValid
       THEN /\ Settle(p, Rejected(ValidationErrorList(query[p].params, "model")))
            /\ Log(p, <<Event("validated", "model", FALSE)>>)
            /\ UNCHANGED issued
       ELSE /\ pc' = [pc EXCEPT ![p] = "selecting"]
            /\ Log(p, <<Event("validated", "model", TRUE), Event("issued", "select", TRUE)>>)
            /\ Issue(p, StorageCall("select", query[p].where.column, 0, <<query[p].params>>))
            /\ UNCHANGED outcome
    /\ UNCHANGED <<store, nextID, ncalls, call, objs, before, query, dao>>

RetrieveValidated_NotChecked(p) == RetrieveValidatedWith(p, TRUE)

RetrieveValidated(p) == RetrieveValidatedWith(p, Valid(query[p].params, "model"))

ResultOf_Reversed(res) == Reverse(res)

\* res => res[tblAlias], res[tblAlias] being the resources the select returned.
ResultOf(res) == res

\* The select settles: res[tblAlias] is what retrieve resolves with, and what
\* the next link of retrieveSingle and of isUnique receives.
RetrieveSelected(p) ==
    /\ pc[p] = "selecting"
    /\ call[p].op \in ReadOps
    /\ \E fails \in BOOLEAN :
         IF fails
         THEN /\ Settle(p, Rejected(Propagated(StorageError)))
              /\ Log(p, <<Event("completed", "select", FALSE)>>)
              /\ UNCHANGED query
         ELSE \E res \in Orderings(Matching(store, query[p].where, issued[p][1].models[1])) :
              /\ query' = [query EXCEPT ![p].fetched = res]
              /\ Log(p, <<Event("completed", "select", TRUE)>>)
              /\ IF call[p].op = "retrieve"
                 THEN Settle(p, Outcome("resolved", NoError, <<>>, ResultOf(res)))
                 ELSE /\ pc' = [pc EXCEPT ![p] = "interpreting"]
                      /\ UNCHANGED outcome
    /\ UNCHANGED <<store, nextID, ncalls, call, objs, issued, before, dao>>

\* retrieveSingle's link: an empty result is rejected with the NotFoundError,
\* or with what onNotFound makes of it; otherwise res[0] (no resource when
\* res has no such element).
RetrieveSingleInterpretedWith(p, isEmpty, index, handler) ==
    /\ pc[p] = "interpreting"
    /\ call[p].op \in {"retrieveSingle", "retrieveByID"}
    /\ IF isEmpty
       THEN /\ Settle(p, Rejected(OnNotFound(handler, NotFoundError("Resource not found."))))
            /\ Log(p, <<Event("interpreted", "single", FALSE)>>)
       ELSE /\ Settle(p, Outcome("resolved", NoError, <<>>,
                        IF index \in DOMAIN query[p].fetched
                        THEN <<query[p].fetched[index]>> ELSE <<>>))
            /\ Log(p, <<Event("interpreted", "single", TRUE)>>)
    /\ UNCHANGED <<store, nextID, ncalls, call, objs, issued, before, query, dao>>

RetrieveSingleInterpreted_EmptyNotChecked(p) ==
    RetrieveSingleInterpretedWith(p, FALSE, 1, call[p].cond)

RetrieveSingleInterpreted_Last(p) ==
    RetrieveSingleInterpretedWith(p, Len(query[p].fetched) = 0, Len(query[p].fetched), call[p].cond)

RetrieveSingleInterpreted_HandlerUnused(p) ==
    RetrieveSingleInterpretedWith(p, Len(query[p].fetched) = 0, 1, "none")

RetrieveSingleInterpreted(p) ==
    RetrieveSingleInterpretedWith(p, Len(query[p].fetched) = 0, 1, call[p].cond)

\* isUnique's link: an empty result resolves with true; otherwise the chain is
\* rejected with a DuplicateError carrying dupe[0][pkName], or with what onDupe
\* makes of it.
IsUniqueInterpreted(p) ==
    /\ pc[p] = "interpreting"
    /\ call[p].op = "isUnique"
    /\ IF Len(query[p].fetched) = 0
       THEN /\ Settle(p, Outcome("resolved", NoError, <<>>, <<TRUE>>))
            /\ Log(p, <<Event("interpreted", "unique", TRUE)>>)
       ELSE /\ Settle(p, Rejected(OnDupe(call[p].cond,
                        DuplicateError("Duplicate resource", "", Get(query[p].fetched[1], PKName)))))
            /\ Log(p, <<Event("interpreted", "unique", FALSE)>>)
    /\ UNCHANGED <<store, nextID, ncalls, call, objs, issued, before, query, dao>>

\* The caller has consumed the settled promise.
Return(p) ==
    /\ pc[p] = "settled"
    /\ pc' = [pc EXCEPT ![p] = "idle"]
    /\ call' = [call EXCEPT ![p] = NoCall]
    /\ objs' = [objs EXCEPT ![p] = <<>>]
    /\ trace' = [trace EXCEPT ![p] = <<>>]
    /\ issued' = [issued EXCEPT ![p] = <<>>]
    /\ outcome' = [outcome EXCEPT ![p] = NoOutcome]
    /\ before' = [before EXCEPT ![p] = Snapshot({}, <<>>)]
    /\ query' = [query EXCEPT ![p] = NoQuery]
    /\ UNCHANGED <<store, nextID, ncalls, dao>>

\* No other invocation is in flight: the caller waits for each promise.
Quiet == \A q \in Procs : pc[q] = "idle"

Next ==
    \E p \in Procs :
        \/ Quiet /\ \E r \in ResourcePool, c \in Conditions : CreateIf(p, r, c)
        \/ Quiet /\ \E r \in ResourcePool : Create(p, r)
        \/ CreateIfValidated(p)
        \/ CreateIfConditionSettled(p)
        \/ CreateIfInserted(p)
        \/ Quiet /\ \E r \in ResourcePool, c \in Conditions : UpdateIf(p, r, c)
        \/ Quiet /\ \E r \in ResourcePool : Update(p, r)
        \/ UpdateIfValidated(p)
        \/ UpdateIfConditionSettled(p)
        \/ UpdateIfUpdated(p)
        \/ Quiet /\ \E r \in ResourcePool : Delete(p, r)
        \/ DeleteValidated(p)
        \/ DeleteDeleted(p)
        \/ Quiet /\ \E t \in ReplaceTargets, id \in ParentIDs, rs \in SeqsUpTo(ItemPool, MaxItems) :
                        Replace(p, dao[t[1]].table, t[2], id, rs, TRUE)
        \/ Quiet /\ \E t \in ReplaceTargets, id \in ParentIDs :
                        Replace(p, dao[t[1]].table, t[2], id, <<>>, FALSE)
        \/ ReplaceParentValidated(p)
        \/ ReplaceItemsValidated(p)
        \/ ReplaceDeleted(p)
        \/ ReplaceInserted(p)
        \/ Quiet /\ \E q \in QueryPool, g \in BOOLEAN :
                        (g \/ q.where = NoWhere) /\ Retrieve(p, q.where, q.params, g)
        \/ Quiet /\ \E q \in QueryPool, g \in BOOLEAN, h \in NotFoundHandlers :
                        (g \/ q.where = NoWhere) /\ RetrieveSingle(p, q.where, q.params, g, h)
        \/ Quiet /\ \E id \in IDPool : RetrieveByID(p, id)
        \/ Quiet /\ \E q \in QueryPool, g \in BOOLEAN, h \in DupeHandlers :
                        (g \/ q.where = NoWhere) /\ IsUnique(p, q.where, q.params, g, h)
        \/ RetrieveValidated(p)
        \/ RetrieveSelected(p)
        \/ RetrieveSingleInterpreted(p)
        \/ IsUniqueInterpreted(p)
        \/ Return(p)

Spec == Init /\ [][Next]_vars

\* ------------------------------------------- create, then retrieveByID
\* The caller of a create that resolved keeps the resource and calls
\* retrieveByID with the identifier the create attached to it; nothing else
\* is called in between.
RetrieveCreated(p) ==
    \E q \in Procs \ {p} :
        /\ pc[q] = "settled" /\ call[q].op = "create" /\ outcome[q].status = "resolved"
        /\ RetrieveByID(p, objs[q][1][PKMapping])

RoundTripNext ==
    \E p \in Procs :
        \/ Quiet /\ \E r \in ResourcePool : Create(p, r)
        \/ CreateIfValidated(p)
        \/ CreateIfConditionSettled(p)
        \/ CreateIfInserted(p)
        \/ RetrieveCreated(p)
        \/ RetrieveValidated(p)
        \/ RetrieveSelected(p)
        \/ RetrieveSingleInterpreted(p)
        \/ Return(p)

RoundTripSpec == Init /\ [][RoundTripNext]_vars

\* update, updateIf and delete against a store whose answer carries any of
\* the ReportedCounts, one call at a time.
AffectedRowsNext ==
    \E p \in Procs :
        \/ Quiet /\ \E r \in ResourcePool, c \in Conditions : UpdateIf(p, r, c)
        \/ Quiet /\ \E r \in ResourcePool : Update(p, r)
        \/ UpdateIfValidated(p)
        \/ UpdateIfConditionSettled(p)
        \/ UpdateIfUpdatedReporting(p)
        \/ Quiet /\ \E r \in ResourcePool : Delete(p, r)
        \/ DeleteValidated(p)
        \/ DeleteDeletedReporting(p)
        \/ Return(p)

AffectedRowsSpec == Init /\ [][AffectedRowsNext]_vars

\* The items of the pool that are valid once a replace for ParentID has
\* rewritten them.
ValidItemPool ==
    {r \in ItemPool : Valid(Rewritten(r, TableName, "users", ParentID), "insert")}

\* Calls of replace for the children of one parent, each with valid items,
\* that overlap: a call may start while another is pending, and the links
\* and storage calls of the two run in any order.  The promises stay with
\* their callers once settled: there is one call for each of Procs.
ConcurrentNext ==
    \E p \in Procs :
        \/ \E rs \in SeqsUpTo(ValidItemPool, MaxItems) :
               Replace(p, dao[TableName].table, "users", ParentID, rs, TRUE)
        \/ ReplaceParentValidated(p)
        \/ ReplaceItemsValidated(p)
        \/ ReplaceDeleted(p)
        \/ ReplaceInsertingOne(p)
        \/ ReplaceInserted(p)

ConcurrentSpec == Init /\ [][ConcurrentNext]_vars

\* =================================================================== claims
Settled(p) == pc[p] = "settled"
IsReplace(p) == call[p].op = "replace"
IsCreate(p) == call[p].op \in {"createIf", "create"}
IsUpdate(p) == call[p].op \in {"updateIf", "update"}
\* The positions of a step in a slot's trace.
StepsAt(p, ev) == {i \in 1..Len(trace[p]) : trace[p][i] = ev}
Happened(p, ev) == StepsAt(p, ev) # {}
\* Every occurrence of step b comes after an occurrence of step a.
Precedes(p, a, b) == \A i \in StepsAt(p, b) : \E j \in StepsAt(p, a) : j < i
ConditionCalled(p) == Happened(p, Event("conditionCalled", "1", TRUE))
IsValidationErrorList(o, errs) ==
    /\ o.status = "rejected"
    /\ o.err.kind = "ValidationErrorList"
    /\ o.err.errors = errs
\* The rows of the parent of a replace, now and when the call was made.
ChildrenNow(p) == ChildrenOf(store, call[p].pID)
ChildrenBefore(p) == ChildrenOf(before[p].store, call[p].pID)
\* A replace whose validations are both run: one relationship, resources given.
ReplaceRuns(p) ==
    IsReplace(p) /\ call[p].tbl = TableName /\ call[p].pTbl = "users" /\ call[p].given
\* The item as the insert must see it: foreign key = parentID, no identifier.
ExpectedItem(p, i) ==
    LET r == before[p].objs[i]
    IN  [k \in (DOMAIN r \ {"ID"}) \cup {"uID"} |-> IF k = "uID" THEN call[p].pID ELSE r[k]]
ExpectedItems(p) == [i \in 1..Len(before[p].objs) |-> ExpectedItem(p, i)]
SomeItemInvalid(p) == \E i \in 1..Len(before[p].objs) : ~Valid(ExpectedItem(p, i), "insert")

\* C1: a replace with a valid parentID in which at least one item fails
\* insert-mode validation issues no delete and no insert, leaves the store as
\* it was, and is rejected with a ValidationErrorList.
C1_NoDeleteBeforeAllItemsValid ==
    \A p \in Procs :
        (ReplaceRuns(p) /\ IsInt(call[p].pID) /\ SomeItemInvalid(p)) =>
            /\ issued[p] = <<>>
            /\ store = before[p].store
            /\ Settled(p) =>
                 /\ outcome[p].status = "rejected"
                 /\ outcome[p].err.kind = "ValidationErrorList"
                 /\ \E i \in 1..Len(objs[p]) :
                      /\ ~Valid(objs[p][i], "insert")
                      /\ outcome[p].err.errors = FieldErrors(objs[p][i], "insert")

\* C1 witness: a settled replace of two items, the first valid and the second
\* not, for a parent that has rows.
C1_Witness ==
    \E p \in Procs :
        /\ Settled(p) /\ ReplaceRuns(p) /\ IsInt(call[p].pID)
        /\ Len(objs[p]) = 2
        /\ Valid(objs[p][1], "insert") /\ ~Valid(objs[p][2], "insert")
        /\ ChildrenNow(p) # {}
        /\ outcome[p].err.kind = "ValidationErrorList"

\* The rows that the items of a replace make once they carry identifiers.
ItemRows(p) == {ToRow(objs[p][i], objs[p][i]["ID"]) : i \in {j \in 1..Len(objs[p]) : Has(objs[p][j], "ID")}}
NewSetInstalled(p) ==
    /\ \A i \in 1..Len(objs[p]) : Has(objs[p][i], "ID") /\ Has(objs[p][i], "uID") /\ Has(objs[p][i], "phoneNumber")
    /\ Cardinality(ItemRows(p)) = Len(objs[p])
    /\ ChildrenNow(p) = ItemRows(p)

\* C2 as stated: once a replace has settled, the parent's rows are exactly
\* the rows it had before the call or exactly the new items.
C2_Original_Atomic ==
    \A p \in Procs :
        (Settled(p) /\ IsReplace(p)) =>
            \/ ChildrenNow(p) = ChildrenBefore(p)
            \/ NewSetInstalled(p)

\* C2 amended: once a replace has settled, the parent's rows are exactly the
\* rows it had before the call when the delete did not complete, exactly the
\* new items when the call resolved, and otherwise (the delete completed and
\* the insert failed) none of the old rows: only the items stored before the
\* failing insert query, the old rows are not restored.
C2_Amended_NoRollback ==
    \A p \in Procs :
        (Settled(p) /\ IsReplace(p)) =>
            \/ /\ ~Happened(p, Event("completed", "delete", TRUE))
               /\ outcome[p].status \in {"rejected", "thrown"}
               /\ store = before[p].store
            \/ /\ outcome[p].status = "resolved"
               /\ NewSetInstalled(p)
               /\ store \ ChildrenNow(p) = before[p].store \ ChildrenBefore(p)
            \/ /\ Happened(p, Event("completed", "delete", TRUE))
               /\ outcome[p] = Rejected(StorageError)
               /\ ChildrenNow(p) = ItemRows(p)
               /\ Cardinality(ItemRows(p)) < Len(objs[p])
               /\ ChildrenNow(p) \cap ChildrenBefore(p) = {}
               /\ store \ ChildrenNow(p) = before[p].store \ ChildrenBefore(p)

\* C2 witness: a replace settled by a failing insert after its delete removed
\* the parent's rows.
C2_Witness ==
    \E p \in Procs :
        /\ Settled(p) /\ ReplaceRuns(p)
        /\ ChildrenBefore(p) # {}
        /\ Happened(p, Event("completed", "delete", TRUE))
        /\ outcome[p] = Rejected(StorageError)
        /\ ChildrenNow(p) \cap ChildrenBefore(p) = {}

\* C3: a replace issues at most two storage calls: first one delete filtered
\* by the foreign-key column = parentID, then, only after that delete has
\* completed, one insert of all the items; a resolved replace issued both.
C3_DeleteThenInsert ==
    \A p \in Procs :
        ReplaceRuns(p) =>
            /\ Len(issued[p]) <= 2
            /\ Len(issued[p]) >= 1 => issued[p][1] = StorageCall("delete", "userID", call[p].pID, <<>>)
            /\ Len(issued[p]) = 2 => issued[p][2] = StorageCall("insert", "", 0, ExpectedItems(p))
            /\ Precedes(p, Event("issued", "delete", TRUE), Event("completed", "delete", TRUE))
            /\ Precedes(p, Event("completed", "delete", TRUE), Event("issued", "insert", TRUE))
            /\ Cardinality(StepsAt(p, Event("issued", "delete", TRUE))) <= 1
            /\ Cardinality(StepsAt(p, Event("issued", "insert", TRUE))) <= 1
            /\ pc[p] = "replaceDeleting" => Len(issued[p]) = 1
            /\ outcome[p].status = "resolved" => Len(issued[p]) = 2

\* C3 witness: a resolved replace of two items that issued the delete and
\* then the insert.
C3_Witness ==
    \E p \in Procs :
        /\ Settled(p) /\ ReplaceRuns(p) /\ outcome[p].status = "resolved"
        /\ Len(objs[p]) = 2
        /\ Len(issued[p]) = 2
        /\ issued[p][1].kind = "delete" /\ issued[p][2].kind = "insert"

\* C4: a replace whose parentID fails the delete-mode validation of the
\* parent's primary key issues no storage call, whatever resources is (also
\* when it is omitted), and is rejected with a ValidationErrorList about the
\* parent's primary key.
C4_InvalidParentID ==
    \A p \in Procs :
        (IsReplace(p) /\ call[p].pTbl = "users" /\ ~IsInt(call[p].pID)) =>
            /\ issued[p] = <<>>
            /\ store = before[p].store
            /\ objs[p] = before[p].objs
            /\ Settled(p) =>
                 IsValidationErrorList(outcome[p], <<[field |-> "ID", problem |-> "notInteger"]>>)

\* C4 witness: a settled replace with a non-integer parentID and resources
\* omitted.
C4_Witness ==
    \E p \in Procs :
        /\ Settled(p) /\ IsReplace(p) /\ call[p].pTbl = "users"
        /\ ~IsInt(call[p].pID) /\ ~call[p].given
        /\ outcome[p].err.kind = "ValidationErrorList"

\* C5: a createIf (or create) of a resource that fails insert-mode validation
\* never calls the condition, issues no storage call, and is rejected with
\* the ValidationErrorList of the resource.
C5_CreateIfInvalid ==
    \A p \in Procs :
        (IsCreate(p) /\ ~Valid(before[p].objs[1], "insert")) =>
            /\ ~ConditionCalled(p)
            /\ issued[p] = <<>>
            /\ store = before[p].store
            /\ Settled(p) =>
                 /\ IsValidationErrorList(outcome[p], FieldErrors(before[p].objs[1], "insert"))
                 /\ outcome[p].err.errors # <<>>

\* C5 witness: a settled create of a resource without its required fields.
C5_Witness ==
    \E p \in Procs :
        /\ Settled(p) /\ call[p].op = "create"
        /\ ~Has(objs[p][1], "phoneNumber") /\ ~Has(objs[p][1], "uID")
        /\ outcome[p].err.kind = "ValidationErrorList"
        /\ Len(outcome[p].err.errors) = 2

\* C6: a createIf of a valid resource whose condition is rejected with E
\* issues no insert and is rejected with exactly E.
C6_CreateIfConditionRejected ==
    \A p \in Procs :
        (call[p].op = "createIf" /\ Valid(before[p].objs[1], "insert") /\ call[p].cond = "reject") =>
            /\ issued[p] = <<>>
            /\ store = before[p].store
            /\ Settled(p) => outcome[p] = Rejected(ConditionError)

\* C6 witness: a settled createIf of a valid resource whose condition was
\* called and rejected.
C6_Witness ==
    \E p \in Procs :
        /\ Settled(p) /\ call[p].op = "createIf" /\ call[p].cond = "reject"
        /\ Valid(objs[p][1], "insert")
        /\ Happened(p, Event("conditionSettled", "1", FALSE))
        /\ outcome[p].err = ConditionError

\* C7: a createIf of a valid resource whose condition succeeds issues exactly
\* one insert, of the resource; when the insert has completed the promise
\* is resolved with the caller's own object, which differs from what was passed
\* in only by carrying the identifier of the row the store created for it.
C7_CreateIfInserts ==
    \A p \in Procs :
        (IsCreate(p) /\ Valid(before[p].objs[1], "insert") /\ call[p].cond = "resolve") =>
            /\ pc[p] \in {"inserting", "settled"} =>
                 issued[p] = <<StorageCall("insert", "", 0, <<before[p].objs[1]>>)>>
            /\ (Settled(p) /\ Happened(p, Event("completed", "insert", TRUE))) =>
                 /\ outcome[p] = ResolvedWith(<<1>>)
                 /\ Has(objs[p][1], "ID")
                 /\ objs[p][1] = SetField(before[p].objs[1], "ID", objs[p][1]["ID"])
                 /\ objs[p][1]["ID"] \notin RowIDs(before[p].store)
                 /\ store = before[p].store \cup {ToRow(objs[p][1], objs[p][1]["ID"])}
            /\ (Settled(p) /\ ~Happened(p, Event("completed", "insert", TRUE))) =>
                 /\ outcome[p] = Rejected(StorageError)
                 /\ store = before[p].store

\* C7 witness: a resolved createIf of a resource that carried no identifier
\* and now carries the one the store generated.
C7_Witness ==
    \E p \in Procs :
        /\ Settled(p) /\ call[p].op = "createIf" /\ outcome[p].status = "resolved"
        /\ ~Has(before[p].objs[1], "ID")
        /\ Has(objs[p][1], "ID") /\ objs[p][1]["ID"] = nextID - 1
        /\ Len(issued[p]) = 1

\* C8: in createIf and updateIf the condition is called only after the
\* validation has succeeded, with the resource, and the insert or update is
\* issued only after the condition has succeeded: never before the condition
\* is called nor while it is pending.
C8_StrictSequence ==
    \A p \in Procs :
        (IsCreate(p) \/ IsUpdate(p)) =>
            LET mode == IF IsCreate(p) THEN "insert" ELSE "update"
                mutation == IF IsCreate(p) THEN "insert" ELSE "update"
            IN  /\ ConditionCalled(p) => Valid(before[p].objs[1], mode)
                /\ Precedes(p, Event("validated", mode, TRUE), Event("conditionCalled", "1", TRUE))
                /\ Precedes(p, Event("conditionCalled", "1", TRUE), Event("conditionSettled", "1", TRUE))
                /\ Precedes(p, Event("conditionSettled", "1", TRUE), Event("issued", mutation, TRUE))
                /\ issued[p] # <<>> =>
                     /\ call[p].cond = "resolve"
                     /\ Happened(p, Event("issued", mutation, TRUE))
                /\ pc[p] \in {"validating", "condition"} => issued[p] = <<>>

\* C8 witness: an updateIf whose update is pending after its condition was
\* called and succeeded.
C8_Witness ==
    \E p \in Procs :
        /\ call[p].op = "updateIf" /\ pc[p] = "updating"
        /\ trace[p] = <<Event("validated", "update", TRUE), Event("conditionCalled", "1", TRUE),
                        Event("conditionSettled", "1", TRUE), Event("issued", "update", TRUE)>>

\* C9: an updateIf (or update) of a resource that fails update-mode
\* validation never calls the condition, issues no storage call, and is
\* rejected with the ValidationErrorList of the resource.
C9_UpdateIfInvalid ==
    \A p \in Procs :
        (IsUpdate(p) /\ ~Valid(before[p].objs[1], "update")) =>
            /\ ~ConditionCalled(p)
            /\ issued[p] = <<>>
            /\ store = before[p].store
            /\ Settled(p) =>
                 /\ IsValidationErrorList(outcome[p], FieldErrors(before[p].objs[1], "update"))
                 /\ outcome[p].err.errors # <<>>

\* C9 witness: a settled updateIf of a resource without its primary key.
C9_Witness ==
    \E p \in Procs :
        /\ Settled(p) /\ call[p].op = "updateIf"
        /\ ~Has(objs[p][1], "ID")
        /\ outcome[p].err.kind = "ValidationErrorList"
        /\ outcome[p].err.errors[1] = [field |-> "ID", problem |-> "required"]

\* C10: an updateIf of a valid resource whose condition is rejected with E
\* issues no update and is rejected with exactly E.
C10_UpdateIfConditionRejected ==
    \A p \in Procs :
        (call[p].op = "updateIf" /\ Valid(before[p].objs[1], "update") /\ call[p].cond = "reject") =>
            /\ issued[p] = <<>>
            /\ store = before[p].store
            /\ Settled(p) => outcome[p] = Rejected(ConditionError)

\* C10 witness: a settled updateIf of a valid resource, whose row exists, and
\* whose condition was called and rejected.
C10_Witness ==
    \E p \in Procs :
        /\ Settled(p) /\ call[p].op = "updateIf" /\ call[p].cond = "reject"
        /\ Valid(objs[p][1], "update")
        /\ MatchedByKey(store, objs[p][1]) # {}
        /\ Happened(p, Event("conditionSettled", "1", FALSE))
        /\ outcome[p].err = ConditionError

IsDelete(p) == call[p].op = "delete"
\* The rows the store held at the call whose key is the one the resource carried.
MatchedAtCall(p) == MatchedByKey(before[p].store, before[p].objs[1])

\* C11: an updateIf (or update) whose validation and condition succeeded and
\* whose update completed: when the update by primary key affected one row the
\* promise is resolved with the caller's own object, which the DAO has not
\* modified; when it affected none the promise is rejected with a
\* NotFoundError "Resource not found." and the store is as it was.
C11_UpdateResolvesOrNotFound ==
    \A p \in Procs :
        (IsUpdate(p) /\ Settled(p) /\ Happened(p, Event("completed", "update", TRUE))) =>
            /\ Valid(before[p].objs[1], "update") /\ call[p].cond = "resolve"
            /\ objs[p] = before[p].objs
            /\ Cardinality(MatchedAtCall(p)) = 1 =>
                 /\ outcome[p] = ResolvedWith(<<1>>)
                 /\ store = UpdateRows(before[p].store, before[p].objs[1])
            /\ Cardinality(MatchedAtCall(p)) = 0 =>
                 /\ outcome[p] = Rejected(NotFoundError("Resource not found."))
                 /\ store = before[p].store

\* C11 witness: a settled updateIf of a valid resource whose identifier is in
\* no row, rejected with the NotFoundError.
C11_Witness ==
    \E p \in Procs :
        /\ Settled(p) /\ call[p].op = "updateIf"
        /\ Happened(p, Event("completed", "update", TRUE))
        /\ objs[p][1]["ID"] = CallerID
        /\ MatchedAtCall(p) = {}
        /\ outcome[p].err.kind = "NotFoundError"

\* C12: a delete of a resource that fails delete-mode validation (its primary
\* key is missing or is not valid) issues no storage call, leaves the store as
\* it was, and is rejected with the ValidationErrorList of the resource.
C12_DeleteInvalid ==
    \A p \in Procs :
        (IsDelete(p) /\ ~Valid(before[p].objs[1], "delete")) =>
            /\ issued[p] = <<>>
            /\ store = before[p].store
            /\ Settled(p) =>
                 /\ IsValidationErrorList(outcome[p], FieldErrors(before[p].objs[1], "delete"))
                 /\ outcome[p].err.errors # <<>>

\* C12 witness: a settled delete of a resource that carries no primary key,
\* while the table has rows.
C12_Witness ==
    \E p \in Procs :
        /\ Settled(p) /\ IsDelete(p)
        /\ ~Has(objs[p][1], "ID")
        /\ store # {}
        /\ outcome[p].err.errors = <<[field |-> "ID", problem |-> "required"]>>

\* C13: a delete of a resource that passes validation issues exactly one
\* delete, by the primary key of the resource; when it has completed, the
\* promise is resolved with the caller's own object if one row was affected,
\* and rejected with a NotFoundError "Resource not found." if none was.
C13_DeleteResolvesOrNotFound ==
    \A p \in Procs :
        (IsDelete(p) /\ Valid(before[p].objs[1], "delete")) =>
            /\ objs[p] = before[p].objs
            /\ pc[p] \in {"deleting", "settled"} =>
                 issued[p] = <<StorageCall("delete", "phoneNumberID", 0, <<before[p].objs[1]>>)>>
            /\ (Settled(p) /\ Happened(p, Event("completed", "delete", TRUE))) =>
                 /\ Cardinality(MatchedAtCall(p)) = 1 =>
                      /\ outcome[p] = ResolvedWith(<<1>>)
                      /\ store = before[p].store \ MatchedAtCall(p)
                 /\ Cardinality(MatchedAtCall(p)) = 0 =>
                      /\ outcome[p] = Rejected(NotFoundError("Resource not found."))
                      /\ store = before[p].store

\* C13 witness: a resolved delete that removed the row of its resource.
C13_Witness ==
    \E p \in Procs :
        /\ Settled(p) /\ IsDelete(p) /\ outcome[p].status = "resolved"
        /\ Cardinality(MatchedAtCall(p)) = 1
        /\ MatchedByKey(store, objs[p][1]) = {}
        /\ Len(issued[p]) = 1

IsRead(p) == call[p].op \in ReadOps
\* The parameter mapping of a retrieval as the caller supplied it: the empty
\* mapping when omitted, {<pk>: id} for retrieveByID.
CallerParams(p) ==
    IF call[p].op = "retrieveByID" THEN [x \in {"phoneNumberID"} |-> call[p].pID]
    ELSE IF call[p].given THEN before[p].objs[1] ELSE [x \in {} |-> 0]
Selected(p) == Happened(p, Event("completed", "select", TRUE))
\* The value a promise resolved with, other than the caller's own objects.
ResolvedValue(vs) == Outcome("resolved", NoError, <<>>, vs)

MatchingResources(p) ==
    {ToResource(row) : row \in
        {r \in store : query[p].where.column = "" \/ r[query[p].where.column] = CallerParams(p)[query[p].where.placeholder]}}
Range(seq) == {seq[i] : i \in 1..Len(seq)}

\* C15: a retrieve hands the executor one select with the parameter mapping
\* the caller supplied (the empty mapping when omitted); when the select has
\* completed the promise is resolved with exactly the sequence the executor
\* returned, the same elements in the same order, also when it is empty.
C15_RetrieveResolvesWithResult ==
    \A p \in Procs :
        (call[p].op = "retrieve" /\ Valid(CallerParams(p), "model")) =>
            /\ store = before[p].store
            /\ pc[p] \in {"selecting", "settled"} =>
                 issued[p] = <<StorageCall("select", query[p].where.column, 0, <<CallerParams(p)>>)>>
            /\ (Settled(p) /\ Selected(p)) =>
                 /\ outcome[p] = ResolvedValue(query[p].fetched)
                 /\ Range(query[p].fetched) = MatchingResources(p)
                 /\ Len(query[p].fetched) = Cardinality(MatchingResources(p))

\* C15 witness: a retrieve resolved with two resources that the executor
\* returned in descending order of their identifiers.
C15_Witness ==
    \E p \in Procs :
        /\ Settled(p) /\ call[p].op = "retrieve" /\ outcome[p].status = "resolved"
        /\ Len(outcome[p].values) = 2
        /\ outcome[p].values[1]["ID"] > outcome[p].values[2]["ID"]

\* C16: a retrieveSingle without onNotFound whose select returned an empty
\* sequence is rejected with a NotFoundError "Resource not found."; it is
\* never resolved without a resource.
C16_RetrieveSingleNotFound ==
    \A p \in Procs :
        (call[p].op = "retrieveSingle" /\ call[p].cond = "none" /\ Settled(p) /\ Selected(p)) =>
            /\ query[p].fetched = <<>> =>
                 outcome[p] = Rejected(NotFoundError("Resource not found."))
            /\ outcome[p].status = "resolved" => Len(outcome[p].values) = 1

\* C16 witness: a retrieveSingle without onNotFound rejected with the
\* NotFoundError while the table has rows, none of which matches.
C16_Witness ==
    \E p \in Procs :
        /\ Settled(p) /\ call[p].op = "retrieveSingle" /\ call[p].cond = "none"
        /\ Selected(p) /\ query[p].fetched = <<>>
        /\ store # {}
        /\ outcome[p].err.kind = "NotFoundError"

\* C17: a retrieveSingle whose select returned a sequence of one or more
\* resources is resolved with exactly the first of them.
C17_RetrieveSingleFirst ==
    \A p \in Procs :
        (call[p].op = "retrieveSingle" /\ Settled(p) /\ Selected(p) /\ Len(query[p].fetched) >= 1) =>
            outcome[p] = ResolvedValue(<<query[p].fetched[1]>>)

\* C17 witness: a retrieveSingle resolved with the first of two resources.
C17_Witness ==
    \E p \in Procs :
        /\ Settled(p) /\ call[p].op = "retrieveSingle" /\ outcome[p].status = "resolved"
        /\ Len(query[p].fetched) = 2
        /\ query[p].fetched[1] # query[p].fetched[2]
        /\ outcome[p].values[1] = query[p].fetched[1]

\* C18: a retrieveSingle with an onNotFound callback whose select returned
\* an empty sequence is rejected, and the error is what onNotFound returns
\* for the NotFoundError "Resource not found.": the caller's own error, or
\* that NotFoundError relabelled.
C18_OnNotFoundReplacesError ==
    \A p \in Procs :
        (call[p].op = "retrieveSingle" /\ Settled(p) /\ Selected(p) /\ query[p].fetched = <<>>) =>
            /\ outcome[p].status = "rejected"
            /\ call[p].cond = "custom" => outcome[p].err = Err("NotFoundError", "CUSTOM ERROR", <<>>)
            /\ call[p].cond = "relabel" => outcome[p].err = Err("CustomError", "Resource not found.", <<>>)

\* C18 witness: a retrieveSingle rejected with the relabelled NotFoundError.
C18_Witness ==
    \E p \in Procs :
        /\ Settled(p) /\ call[p].op = "retrieveSingle" /\ call[p].cond = "relabel"
        /\ Selected(p) /\ query[p].fetched = <<>>
        /\ outcome[p].err.kind = "CustomError"

\* The outcome of retrieveSingle for the sequence the select returned and the
\* error its onNotFound produces.
SingleOutcome(fetched, err) ==
    IF fetched = <<>> THEN Rejected(err) ELSE ResolvedValue(<<fetched[1]>>)
\* A retrieveSingle called as retrieveByID(id) is said to call it.
ByIDTwin(p, id) ==
    /\ call[p].op = "retrieveSingle" /\ call[p].cond = "invalidKey" /\ call[p].given
    /\ query[p].where = Where("phoneNumberID", "phoneNumberID")
    /\ before[p].objs = <<[x \in {"phoneNumberID"} |-> id]>>

\* C19: retrieveByID(id) runs the select of retrieveSingle with the equality
\* condition on the primary-key column and the parameter mapping {<pk>: id},
\* and both are settled the same way for what the select returns: resolved
\* with the first resource, or rejected with a NotFoundError "Invalid <pk>.".
C19_RetrieveByIDIsRetrieveSingle ==
    \A p \in Procs :
        /\ call[p].op = "retrieveByID" =>
             /\ query[p].where = Where("phoneNumberID", "phoneNumberID")
             /\ query[p].params = [x \in {"phoneNumberID"} |-> call[p].pID]
             /\ pc[p] \in {"selecting", "interpreting", "settled"} =>
                  issued[p] = <<StorageCall("select", "phoneNumberID", 0, <<query[p].params>>)>>
        /\ ((call[p].op = "retrieveByID" \/ \E id \in IDPool : ByIDTwin(p, id)) /\ Settled(p)) =>
             IF Selected(p)
             THEN outcome[p] = SingleOutcome(query[p].fetched, NotFoundError("Invalid phoneNumberID."))
             ELSE outcome[p] = Rejected(StorageError)

\* C19 witness: a retrieveByID of an identifier that is in no row, rejected
\* with the NotFoundError of retrieveByID.
C19_Witness ==
    \E p \in Procs :
        /\ Settled(p) /\ call[p].op = "retrieveByID" /\ call[p].pID = CallerID
        /\ store # {}
        /\ Selected(p) /\ query[p].fetched = <<>>
        /\ outcome[p].err.msg = "Invalid phoneNumberID."

CallerIDs(p) == {before[p].objs[i]["ID"] : i \in {j \in 1..Len(before[p].objs) : Has(before[p].objs[j], "ID")}}
InsertsIssued(p) == {i \in 1..Len(issued[p]) : issued[p][i].kind = "insert"}

\* C22: a replace rewrites every item before any item is validated and before
\* the insert: once the parentID has passed validation every item carries
\* uID = parentID and no ID, whatever the caller supplied for them; the
\* validation errors are those of the rewritten items, every model handed to
\* the insert has uID = parentID and no ID, and no row the replace stores has
\* an identifier or a parent supplied by the caller.
C22_ItemsRewritten ==
    \A p \in Procs :
        ReplaceRuns(p) =>
            /\ pc[p] = "validating" => objs[p] = before[p].objs
            /\ pc[p] \in {"validatingItems", "replaceDeleting", "replaceInserting"} =>
                 /\ objs[p] = ExpectedItems(p)
                 /\ \A i \in 1..Len(objs[p]) : ~Has(objs[p][i], "ID") /\ objs[p][i]["uID"] = call[p].pID
            /\ (Settled(p) /\ Happened(p, Event("validated", "items", FALSE))) =>
                 /\ objs[p] = ExpectedItems(p)
                 /\ \E i \in 1..Len(objs[p]) :
                      outcome[p] = Rejected(ValidationErrorList(ExpectedItem(p, i), "insert"))
            /\ \A c \in InsertsIssued(p) :
                 /\ Len(issued[p][c].models) = Len(before[p].objs)
                 /\ \A i \in 1..Len(issued[p][c].models) :
                      /\ ~Has(issued[p][c].models[i], "ID")
                      /\ issued[p][c].models[i]["uID"] = call[p].pID
                      /\ issued[p][c].models[i] = ExpectedItem(p, i)
            /\ Happened(p, Event("completed", "delete", TRUE)) =>
                 /\ RowIDs(ChildrenNow(p)) \cap (CallerIDs(p) \cup RowIDs(before[p].store)) = {}
                 /\ RowIDs(store \ before[p].store) \subseteq RowIDs(ChildrenNow(p))

\* C22 witness: the insert of a replace is pending for an item the caller
\* supplied with its own identifier and another parent.
C22_Witness ==
    \E p \in Procs :
        /\ ReplaceRuns(p) /\ pc[p] = "replaceInserting"
        /\ Len(before[p].objs) >= 1
        /\ Get(before[p].objs[1], "ID") = CallerID
        /\ Get(before[p].objs[1], "uID") = OtherParentID
        /\ issued[p][2].models[1]["uID"] = ParentID
        /\ ~Has(issued[p][2].models[1], "ID")

\* The items of a replace that fail insert-mode validation once rewritten.
FailingItems(p) == {i \in 1..Len(before[p].objs) : ~Valid(ExpectedItem(p, i), "insert")}
RECURSIVE SumOver(_, _)
SumOver(S, p) ==
    IF S = {} THEN 0
    ELSE LET i == CHOOSE x \in S : TRUE
         IN  Len(FieldErrors(ExpectedItem(p, i), "insert")) + SumOver(S \ {i}, p)
ItemsRejected(p) ==
    ReplaceRuns(p) /\ Settled(p) /\ Happened(p, Event("validated", "items", FALSE))

\* C23 as stated: a replace rejected by the validation of its items is
\* rejected with an error list that holds the validation failures of all the
\* failing items.
C23_Original_Aggregate ==
    \A p \in Procs :
        ItemsRejected(p) =>
            /\ outcome[p].err.kind = "ValidationErrorList"
            /\ Len(outcome[p].err.errors) = SumOver(FailingItems(p), p)

\* C23 amended: a replace in which one or more items fail insert-mode
\* validation is rejected with the ValidationErrorList of one of the failing
\* items alone, whatever the number of failing items: the failures of the
\* other failing items are not reported.  No delete and no insert is issued.
C23_Amended_OneItemReported ==
    \A p \in Procs :
        /\ ItemsRejected(p) =>
             /\ \E i \in FailingItems(p) :
                  /\ outcome[p] = Rejected(ValidationErrorList(ExpectedItem(p, i), "insert"))
                  /\ Len(outcome[p].err.errors) = Len(FieldErrors(ExpectedItem(p, i), "insert"))
             /\ issued[p] = <<>>
        /\ (ReplaceRuns(p) /\ Settled(p) /\ IsInt(call[p].pID) /\ FailingItems(p) # {}) => ItemsRejected(p)

\* C23 witness: a replace of two items that both fail validation is rejected
\* with the one failure of one item.
C23_Witness ==
    \E p \in Procs :
        /\ ItemsRejected(p)
        /\ Cardinality(FailingItems(p)) = 2
        /\ SumOver(FailingItems(p), p) = 2
        /\ Len(outcome[p].err.errors) = 1

\* C24: a replace that resolves is resolved with the caller's own items, all
\* of them and in the order they were passed; each differs from what was
\* passed in only by carrying uID = parentID and the identifier of the row the
\* store created for it, and these rows are exactly the parent's rows.
C24_ReplaceResolvesWithItems ==
    \A p \in Procs :
        (ReplaceRuns(p) /\ Settled(p)) =>
            /\ outcome[p].status = "resolved" <=> Happened(p, Event("completed", "insert", TRUE))
            /\ outcome[p].status = "resolved" =>
                 /\ outcome[p] = ResolvedWith([i \in 1..Len(before[p].objs) |-> i])
                 /\ Len(objs[p]) = Len(before[p].objs)
                 /\ \A i \in 1..Len(objs[p]) :
                      /\ Has(objs[p][i], "ID")
                      /\ objs[p][i] = SetField(ExpectedItem(p, i), "ID", objs[p][i]["ID"])
                      /\ objs[p][i]["uID"] = call[p].pID
                      /\ objs[p][i]["ID"] \notin RowIDs(before[p].store) \cup CallerIDs(p)
                      /\ ToRow(objs[p][i], objs[p][i]["ID"]) \in store
                 /\ \A i, j \in 1..Len(objs[p]) : objs[p][i]["ID"] = objs[p][j]["ID"] => i = j
                 /\ ChildrenNow(p) = {ToRow(objs[p][i], objs[p][i]["ID"]) : i \in 1..Len(objs[p])}

\* C24 witness: a replace of two items, one passed with its own identifier
\* and another parent, is resolved with both.
C24_Witness ==
    \E p \in Procs :
        /\ ReplaceRuns(p) /\ Settled(p) /\ outcome[p].status = "resolved"
        /\ Len(outcome[p].refs) = 2
        /\ \E i \in 1..2 : Get(before[p].objs[i], "ID") = CallerID /\ objs[p][i]["ID"] # CallerID
        /\ objs[p][1]["uID"] = ParentID /\ objs[p][2]["uID"] = ParentID

\* The number of foreign keys from the DAO's table to the parent table.
RelationshipCount(p) == Len(Relationships(call[p].tbl, call[p].pTbl))

\* C25: a replace on a DAO whose table has no foreign key, or more than one,
\* to the parent table fails at once with an AssertionError, which is neither
\* a ValidationErrorList nor a NotFoundError: no step of the chain has run
\* (no validation of the parentID or of an item), no item is modified, no
\* storage call is issued and the store is as it was.  A replace with exactly
\* one such foreign key never fails with an AssertionError.
C25_AssertionFailsFast ==
    \A p \in Procs :
        IsReplace(p) =>
            /\ RelationshipCount(p) # 1 =>
                 /\ Settled(p)
                 /\ outcome[p].status \notin {"resolved", "pending"}
                 /\ outcome[p].err = AssertionError
                 /\ outcome[p].err.kind \notin {"ValidationErrorList", "NotFoundError"}
                 /\ trace[p] = <<>>
                 /\ issued[p] = <<>>
                 /\ objs[p] = before[p].objs
                 /\ store = before[p].store
            /\ RelationshipCount(p) = 1 => outcome[p].err.kind # "AssertionError"

\* C25 witness: a replace on the DAO of photos with parent photos (two
\* foreign keys), an invalid parentID and two items, one of them invalid.
C25_Witness ==
    \E p \in Procs :
        /\ IsReplace(p) /\ call[p].tbl = "photos" /\ call[p].pTbl = "photos"
        /\ RelationshipCount(p) = 2
        /\ ~IsInt(call[p].pID)
        /\ Len(objs[p]) = 2 /\ \E i \in 1..2 : ~Has(objs[p][i], "phoneNumber")
        /\ outcome[p].err.kind = "AssertionError"

StorageCallKinds == {"select", "insert", "update", "delete"}
\* The positions of the storage calls of a kind among those a slot issued.
IssuedOf(p, k) == {i \in 1..Len(issued[p]) : issued[p][i].kind = k}
LastStep(p) == trace[p][Len(trace[p])]

\* C27: when a storage call of any operation fails with error E, that is the
\* last step of the operation: its promise is rejected with exactly E, the
\* failed call is the last call it issued and the only one of its kind.  An
\* operation is rejected with a storage error only in this way.
C27_StorageErrorsPassThrough ==
    \A p \in Procs :
        /\ \A k \in StorageCallKinds :
             \A i \in StepsAt(p, Event("completed", k, FALSE)) :
                /\ i = Len(trace[p])
                /\ Settled(p)
                /\ outcome[p] = Rejected(StorageError)
                /\ issued[p] # <<>>
                /\ issued[p][Len(issued[p])].kind = k
                /\ Cardinality(IssuedOf(p, k)) = 1
        /\ (Settled(p) /\ outcome[p].err.kind \notin
                {"none", "ValidationErrorList", "NotFoundError", "DuplicateError", "AssertionError",
                 "TypeError", "CustomError", "Error"}) =>
             /\ outcome[p] = Rejected(StorageError)
             /\ trace[p] # <<>>
             /\ LastStep(p).step = "completed" /\ ~LastStep(p).ok

\* C27 witness: a retrieve whose select failed.
C27_Witness ==
    \E p \in Procs :
        /\ Settled(p) /\ call[p].op = "retrieve"
        /\ Happened(p, Event("completed", "select", FALSE))
        /\ outcome[p] = Rejected(StorageError)
        /\ Len(issued[p]) = 1

\* C28: a replace whose delete fails with E is rejected with exactly E, has
\* issued the delete only, and leaves the store as it was; a replace whose
\* insert fails with E after its delete completed is rejected with exactly E,
\* has issued the delete and the insert and nothing after them, and none of
\* the rows the parent had is in the store.
C28_ReplaceStorageFailure ==
    \A p \in Procs :
        ReplaceRuns(p) =>
            /\ Happened(p, Event("completed", "delete", FALSE)) =>
                 /\ Settled(p)
                 /\ outcome[p] = Rejected(StorageError)
                 /\ Len(issued[p]) = 1 /\ issued[p][1].kind = "delete"
                 /\ ~Happened(p, Event("issued", "insert", TRUE))
                 /\ store = before[p].store
            /\ Happened(p, Event("completed", "insert", FALSE)) =>
                 /\ Settled(p)
                 /\ Happened(p, Event("completed", "delete", TRUE))
                 /\ outcome[p] = Rejected(StorageError)
                 /\ Len(issued[p]) = 2
                 /\ issued[p][1].kind = "delete" /\ issued[p][2].kind = "insert"
                 /\ LastStep(p) = Event("completed", "insert", FALSE)
                 /\ store \cap ChildrenBefore(p) = {}
                 /\ RowIDs(store) \cap RowIDs(ChildrenBefore(p)) = {}

\* C28 witness: the insert of a replace of two items failed after the delete
\* had removed the parent's row.
C28_Witness ==
    \E p \in Procs :
        /\ ReplaceRuns(p) /\ Settled(p)
        /\ Len(objs[p]) = 2
        /\ ChildrenBefore(p) # {}
        /\ LastStep(p) = Event("completed", "insert", FALSE)
        /\ Len(issued[p]) = 2
        /\ ChildrenBefore(p) \cap store = {}

\* The steps of a createIf or updateIf up to the call of a condition, and
\* from the fulfilment of the condition to the issue of the storage call.
UpToCondition(mode) == <<Event("validated", mode, TRUE), Event("conditionCalled", "1", TRUE)>>
UpToStorageCall(mode) ==
    UpToCondition(mode) \o <<Event("conditionSettled", "1", TRUE), Event("issued", mode, TRUE)>>
Untouched(p) == store = before[p].store /\ objs[p] = before[p].objs

\* What a createIf whose condition always succeeds shows of itself at each
\* link of its chain, as a function of the resource and the store it was
\* called with.
CreateWithSucceedingCondition(p) ==
    LET r0  == before[p].objs[1]
        ins == <<StorageCall("insert", "", 0, <<r0>>)>>
    IN  CASE pc[p] = "validating" ->
               trace[p] = <<>> /\ issued[p] = <<>> /\ outcome[p] = Pending /\ Untouched(p)
          [] pc[p] = "condition" ->
               /\ Valid(r0, "insert")
               /\ trace[p] = UpToCondition("insert") /\ issued[p] = <<>>
               /\ outcome[p] = Pending /\ Untouched(p)
          [] pc[p] = "inserting" ->
               /\ Valid(r0, "insert")
               /\ trace[p] = UpToStorageCall("insert") /\ issued[p] = ins
               /\ outcome[p] = Pending /\ Untouched(p)
          [] pc[p] = "settled" ->
               \/ /\ ~Valid(r0, "insert")
                  /\ trace[p] = <<Event("validated", "insert", FALSE)>> /\ issued[p] = <<>>
                  /\ outcome[p] = Rejected(ValidationErrorList(r0, "insert")) /\ Untouched(p)
               \/ /\ Valid(r0, "insert")
                  /\ trace[p] = Append(UpToStorageCall("insert"), Event("completed", "insert", FALSE))
                  /\ issued[p] = ins
                  /\ outcome[p] = Rejected(StorageError) /\ Untouched(p)
               \/ /\ Valid(r0, "insert")
                  /\ trace[p] = Append(UpToStorageCall("insert"), Event("completed", "insert", TRUE))
                  /\ issued[p] = ins
                  /\ outcome[p] = ResolvedWith(<<1>>)
                  /\ Has(objs[p][1], "ID")
                  /\ objs[p] = <<SetField(r0, "ID", objs[p][1]["ID"])>>
                  /\ objs[p][1]["ID"] \notin RowIDs(before[p].store)
                  /\ store = before[p].store \cup {ToRow(objs[p][1], objs[p][1]["ID"])}
          [] OTHER -> FALSE

\* C29: create(resource) behaves as createIf(resource, c) with a condition c
\* that always succeeds: at every link of the chain a create and such a
\* createIf, called with the same resource on the same store, show the same
\* validation, the same single insert, the same outcome and the same effect
\* on the resource and the store; a create is never rejected by a condition.
C29_CreateIsCreateIf ==
    \A p \in Procs :
        /\ (call[p].op = "create" \/ (call[p].op = "createIf" /\ call[p].cond = "resolve")) =>
             CreateWithSucceedingCondition(p)
        /\ call[p].op = "create" => outcome[p].err # ConditionError

\* C29 witness: a create of a valid resource is resolved with the resource,
\* which carries the identifier of the row inserted for it.
C29_Witness ==
    \E p \in Procs :
        /\ Settled(p) /\ call[p].op = "create"
        /\ Valid(before[p].objs[1], "insert") /\ ~Has(before[p].objs[1], "ID")
        /\ ConditionCalled(p)
        /\ outcome[p] = ResolvedWith(<<1>>)
        /\ ToRow(objs[p][1], objs[p][1]["ID"]) \in store \ before[p].store

\* What an updateIf whose condition always succeeds shows of itself at each
\* link of its chain, as a function of the resource and the store it was
\* called with.
UpdateWithSucceedingCondition(p) ==
    LET r0  == before[p].objs[1]
        upd == <<StorageCall("update", "phoneNumberID", 0, <<r0>>)>>
    IN  /\ objs[p] = before[p].objs
        /\ CASE pc[p] = "validating" ->
                 trace[p] = <<>> /\ issued[p] = <<>> /\ outcome[p] = Pending /\ store = before[p].store
            [] pc[p] = "condition" ->
                 /\ Valid(r0, "update")
                 /\ trace[p] = UpToCondition("update") /\ issued[p] = <<>>
                 /\ outcome[p] = Pending /\ store = before[p].store
            [] pc[p] = "updating" ->
                 /\ Valid(r0, "update")
                 /\ trace[p] = UpToStorageCall("update") /\ issued[p] = upd
                 /\ outcome[p] = Pending /\ store = before[p].store
            [] pc[p] = "settled" ->
                 \/ /\ ~Valid(r0, "update")
                    /\ trace[p] = <<Event("validated", "update", FALSE)>> /\ issued[p] = <<>>
                    /\ outcome[p] = Rejected(ValidationErrorList(r0, "update"))
                    /\ store = before[p].store
                 \/ /\ Valid(r0, "update")
                    /\ trace[p] = Append(UpToStorageCall("update"), Event("completed", "update", FALSE))
                    /\ issued[p] = upd
                    /\ outcome[p] = Rejected(StorageError)
                    /\ store = before[p].store
                 \/ /\ Valid(r0, "update")
                    /\ trace[p] = Append(UpToStorageCall("update"), Event("completed", "update", TRUE))
                    /\ issued[p] = upd
                    /\ store = UpdateRows(before[p].store, r0)
                    /\ outcome[p] = IF MatchedAtCall(p) # {} THEN ResolvedWith(<<1>>)
                                    ELSE Rejected(NotFoundError("Resource not found."))
            [] OTHER -> FALSE

\* C30: update(resource) behaves as updateIf(resource, c) with a condition c
\* that always succeeds: at every link of the chain an update and such an
\* updateIf, called with the same resource on the same store, show the same
\* validation, the same single update, the same outcome and the same effect
\* on the store; an update is never rejected by a condition.
C30_UpdateIsUpdateIf ==
    \A p \in Procs :
        /\ (call[p].op = "update" \/ (call[p].op = "updateIf" /\ call[p].cond = "resolve")) =>
             UpdateWithSucceedingCondition(p)
        /\ call[p].op = "update" => outcome[p].err # ConditionError

\* C30 witness: an update of a stored row is resolved with the resource and
\* the row carries the resource's values.
C30_Witness ==
    \E p \in Procs :
        /\ Settled(p) /\ call[p].op = "update"
        /\ ConditionCalled(p)
        /\ MatchedAtCall(p) # {}
        /\ outcome[p] = ResolvedWith(<<1>>)
        /\ store # before[p].store

\* Slot q holds a resolved create and slot p a settled retrieveByID of the
\* identifier that the create attached, whose select completed.
RoundTrip(q, p) ==
    /\ p # q
    /\ Settled(q) /\ call[q].op = "create" /\ outcome[q].status = "resolved"
    /\ Settled(p) /\ call[p].op = "retrieveByID" /\ call[p].pID = objs[q][1]["ID"]
    /\ Selected(p)

InvalidParentID(p) == ~IsInt(call[p].pID)

\* C33 as stated: a replace with an invalid parentID fails with a
\* ValidationErrorList whatever the number of relationships is.
C33_Original_ParentIDFirst ==
    \A p \in Procs :
        (IsReplace(p) /\ InvalidParentID(p) /\ Settled(p)) =>
            outcome[p].err.kind = "ValidationErrorList"

\* C33 amended: the relationship between the two tables is located and
\* counted first, the parentID is validated after it.  With no relationship
\* or several a replace fails with the AssertionError and its parentID is
\* never validated, valid or not; with exactly one, an invalid parentID fails
\* with a ValidationErrorList.  The steps that follow keep their order:
\* parentID validation, item validation, delete, insert.
C33_Amended_RelationshipFirst ==
    \A p \in Procs :
        IsReplace(p) =>
            /\ RelationshipCount(p) # 1 =>
                 /\ outcome[p].err.kind = "AssertionError"
                 /\ ~Happened(p, Event("validated", "parent", TRUE))
                 /\ ~Happened(p, Event("validated", "parent", FALSE))
            /\ (RelationshipCount(p) = 1 /\ InvalidParentID(p) /\ Settled(p)) =>
                 /\ outcome[p].err.kind = "ValidationErrorList"
                 /\ trace[p] = <<Event("validated", "parent", FALSE)>>
            /\ (RelationshipCount(p) = 1 /\ trace[p] # <<>>) => trace[p][1].what = "parent"
            /\ \A ok \in BOOLEAN :
                 Precedes(p, Event("validated", "parent", TRUE), Event("validated", "items", ok))
            /\ Precedes(p, Event("validated", "items", TRUE), Event("issued", "delete", TRUE))
            /\ Precedes(p, Event("completed", "delete", TRUE), Event("issued", "insert", TRUE))

\* C33 witness: a replace on the DAO of phone_numbers with parent products (no
\* relationship) and an invalid parentID has failed with the AssertionError.
C33_Witness ==
    \E p \in Procs :
        /\ Settled(p) /\ IsReplace(p) /\ call[p].pTbl = "products"
        /\ RelationshipCount(p) = 0
        /\ InvalidParentID(p)
        /\ outcome[p].err = AssertionError
        /\ trace[p] = <<>>

\* The count the store's answer carried, as the history of p kept it.
ReportedTo(p) ==
    {c \in ReportedCounts : trace[p] # <<>> /\ trace[p][Len(trace[p])] = Reported(c)[1]}

\* C34: an update, updateIf or delete whose storage call completed resolves
\* with the resource exactly when the store reported an affected-row count of
\* 1; for every other answer (0, 2, or no count) it is rejected with the
\* NotFoundError "Resource not found.", and in both cases the rows the call
\* matched stay modified or removed.
C34_OnlyCountOneIsFound ==
    \A p \in Procs :
        /\ (IsUpdate(p) /\ Settled(p) /\ Happened(p, Event("completed", "update", TRUE))) =>
             /\ Cardinality(ReportedTo(p)) = 1
             /\ \A c \in ReportedTo(p) :
                  outcome[p] = IF c = 1 THEN ResolvedWith(<<1>>)
                               ELSE Rejected(NotFoundError("Resource not found."))
             /\ store = UpdateRows(before[p].store, before[p].objs[1])
        /\ (IsDelete(p) /\ Settled(p) /\ Happened(p, Event("completed", "delete", TRUE))) =>
             /\ Cardinality(ReportedTo(p)) = 1
             /\ \A c \in ReportedTo(p) :
                  outcome[p] = IF c = 1 THEN ResolvedWith(<<1>>)
                               ELSE Rejected(NotFoundError("Resource not found."))
             /\ store = before[p].store \ MatchedAtCall(p)

\* C34 witness: the store reported 2 rows for an update that changed a row,
\* and the call was rejected with the NotFoundError.
C34_Witness ==
    \E p \in Procs :
        /\ Settled(p) /\ IsUpdate(p) /\ ReportedTo(p) = {2}
        /\ store # before[p].store
        /\ store = UpdateRows(before[p].store, before[p].objs[1])
        /\ outcome[p] = Rejected(NotFoundError("Resource not found."))

\* A replace that failed after its parentID was found valid.
FailedAfterParent(p) ==
    /\ ReplaceRuns(p) /\ Settled(p) /\ outcome[p].status = "rejected"
    /\ Happened(p, Event("validated", "parent", TRUE))

\* Item i of p is as the replace rewrote it, but for an identifier the store
\* generated for it.
RewrittenNotRestored(p, i) ==
    /\ Get(objs[p][i], "uID") = call[p].pID
    /\ DeleteField(objs[p][i], "ID") = ExpectedItem(p, i)
    /\ Has(objs[p][i], "ID") =>
         /\ Happened(p, Event("completed", "insert", FALSE))
         /\ objs[p][i]["ID"] \notin CallerIDs(p) \cup RowIDs(before[p].store)
         /\ objs[p][i]["ID"] \in RowIDs(store)

\* C35: a replace that failed on its parentID left every item of the caller
\* as it was given; a replace that failed later (an item was invalid, the
\* delete or the insert failed) left every item rewritten: the foreign key
\* is the parentID and the caller's identifier is gone, nothing puts the
\* caller's values back.  Items rejected by validation or left by a failed
\* delete carry no identifier at all.
C35_FailedReplaceLeavesItems ==
    \A p \in Procs :
        /\ (ReplaceRuns(p) /\ Settled(p) /\ Happened(p, Event("validated", "parent", FALSE))) =>
             /\ outcome[p].status = "rejected"
             /\ objs[p] = before[p].objs
        /\ FailedAfterParent(p) =>
             /\ Len(objs[p]) = Len(before[p].objs)
             /\ \A i \in 1..Len(objs[p]) : RewrittenNotRestored(p, i)
             /\ ~Happened(p, Event("completed", "insert", FALSE)) => objs[p] = ExpectedItems(p)

\* C35 witness: a replace was rejected because an item was invalid, and an
\* item the caller gave with an identifier and another parent is left
\* without the identifier and with the parentID of the call.
C35_Witness ==
    \E p \in Procs :
        /\ FailedAfterParent(p)
        /\ Happened(p, Event("validated", "items", FALSE))
        /\ \E i \in 1..Len(objs[p]) :
             /\ Has(before[p].objs[i], "ID") /\ ~Has(objs[p][i], "ID")
             /\ Get(before[p].objs[i], "uID") # call[p].pID
             /\ objs[p][i]["uID"] = call[p].pID

BothResolved ==
    \A p \in Procs : ReplaceRuns(p) /\ Settled(p) /\ outcome[p].status = "resolved"
\* The two calls were pending at the same time: neither found the rows of
\* the other when it started.
Overlapped ==
    \A p \in Procs : \A q \in Procs \ {p} : ItemRows(q) \cap before[p].store = {}

\* C36 as stated: once two overlapping replace calls for one parent have
\* both resolved, the parent's rows are exactly the items of one of the two.
C36_Original_OneItemSet ==
    (BothResolved /\ Overlapped) =>
        \E p \in Procs : ChildrenOf(store, ParentID) = ItemRows(p)

\* C36 amended: once both have resolved, the parent's rows are all the items
\* of one of the two calls, and nothing but items of the two calls: the rows
\* the parent had before are gone, and of the other call's items those are
\* present whose insert query completed after the last delete, which is
\* none of them, some of them, or all of them (the union of the two sets).
C36_Amended_OneSetAndPartOfTheOther ==
    BothResolved =>
        \E p \in Procs : \E q \in Procs \ {p} :
            /\ ItemRows(p) \subseteq ChildrenOf(store, ParentID)
            /\ ChildrenOf(store, ParentID) \subseteq ItemRows(p) \cup ItemRows(q)

\* C36 witness: two overlapping replace calls for the parent have resolved,
\* each with items, and the parent's rows are the items of both.
C36_Witness ==
    /\ BothResolved /\ Overlapped
    /\ \A p \in Procs : ItemRows(p) # {}
    /\ ChildrenOf(store, ParentID) = UNION {ItemRows(p) : p \in Procs}
    /\ \E p \in Procs : ChildrenOf(before[p].store, ParentID) # {}

====
